---- MODULE Spec2Model ----
(***************************************************************************)
(* A model of the grounded-chat server (src/src/server.ts): the assistant  *)
(* registry, the run executor of POST /api/assistants/chat with its poll   *)
(* loop, the citation extractor and resolver, the file-metadata cache, the *)
(* vector-store membership index, the S3 mirror (read path, upload and     *)
(* delete endpoints), and the browser client: the conversation state of    *)
(* ChatService, ChatComponent's send button and selector, and the poller   *)
(* of VectorStoresComponent.                                               *)
(*                                                                         *)
(* Strings the code only compares or stores are TLA+ strings; strings the  *)
(* code trims, concatenates or tests for a prefix are sequences of         *)
(* one-character strings.  A JSON document is a sequence of strings.       *)
(***************************************************************************)
EXTENDS Integers, Sequences, FiniteSets, TLC

VARIABLES
    \* ---- process-wide state of server.ts
    apiKey,                      \* process.env['OPENAI_API_KEY'] is set
    assistantIdByVectorStoreId,  \* the assistant registry (a Map)
    \* ---- one POST /api/assistants/chat request
    body,                        \* req.body
    pc,                          \* the handler's position (the await it is suspended on)
    assistantId,                 \* const assistantId
    threadId,                    \* let threadId
    runId,                       \* const runId
    start,                       \* const start = Date.now()
    now,                         \* the wall clock, Date.now()
    polls,                       \* status calls issued so far
    status,                      \* the status of the last status response
    messagesData,                \* messagesData.data, once received
    reply,                       \* const reply
    res,                         \* the response sent (status 0: none yet)
    \* ---- the upstream backend
    threads,                     \* per thread id: its messages and the calls addressed to it
    runPlan,                     \* how the run behaves under polling
    calls,                       \* upstream calls issued, per endpoint
    lastFail,                    \* the last non-success upstream response received
    \* ---- callers of getOrCreateAssistantForVectorStore
    regTask,                     \* per caller: the call it is in and what it did
    regLog,                      \* per vector store: what the calls so far did
    \* ---- the membership index
    vectorStoreFileIdCache,      \* per vector store: createdAtMs and byOpenAIFileId
    listing,                     \* upstream: the files attached to each vector store
    idxTask,                     \* the call of getVectorStoreFileIdByOpenAIFileId
    \* ---- the file metadata cache
    fileMetaCache,               \* per file id: absent, or the cached FileMeta
    metaTask,                    \* per caller: its call of getFileMeta
    metaLog,                     \* per file id: what the lookups so far did
    \* ---- one call of extractAssistantCitationsForVectorStore
    citeMessage,                 \* the assistant message: its content blocks
    citePc,                      \* the call's position
    deduped,                     \* const deduped
    metaPending,                 \* the positions of deduped whose getFileMeta is awaited
    metas,                       \* per position of deduped: the FileMeta obtained
    citations,                   \* the citations returned
    \* ---- the S3 mirror and one GET /api/vector-stores/:id/files/:fileId/content
    s3Env,                       \* VECTOR_STORE_S3_BUCKET, _REGION and _PREFIX
    s3Objects,                   \* the keys of the objects in the bucket
    mirReq,                      \* req.params
    mirTask,                     \* the handler's position and locals
    mirRes,                      \* the response sent (status 0: none yet)
    \* ---- the browser client (ChatService and ChatComponent)
    selectedVectorStoreId,       \* ChatService.selectedVectorStoreId
    clientThreadId,              \* ChatService.threadId ("" for null)
    context,                     \* the turns answered in the conversation shown
    convPc,                      \* "idle", or "waiting" for the response (isLoading)
    sends,                       \* requests sent so far
    lastTurnFailed,              \* the last response received was an error
    \* ---- the upload and the delete endpoints
    upTask,                      \* one POST /api/vector-stores/:id/files request
    delTask,                     \* one DELETE request and its deleteAllObjectsUnderPrefix
    storeLog,                    \* what the uploads did: files created, objects put
    \* ---- two chat requests on one thread
    dialogue,                    \* upstream: the messages of the thread, oldest first
    activeRun,                   \* upstream: the request whose run is active (0: none)
    turnTask,                    \* per request: its position and what it answered
    \* ---- ChatComponent and the requests of its ChatService
    isLoading,                   \* ChatComponent.isLoading
    viewMessages,                \* ChatComponent.messages
    viewError,                   \* ChatComponent.error ("" for null)
    outstanding,                 \* the POST requests sent and not yet answered
    returnedFor,                 \* <<thread id, vector store>>: a turn against the store returned the id
    clicks,                      \* calls of ChatComponent.sendMessage so far
    \* ---- VectorStoresComponent
    selectedStore,               \* selectedStore: its id ("" for null) and file_counts.in_progress
    storeFiles,                  \* storeFiles: the number of files shown as in_progress
    pollIntervalId,              \* pollIntervalId (0 for null)
    pollInFlight,                \* pollInFlight
    isPolling,                   \* isPolling
    timers,                      \* the interval timers registered with the window
    destroyed,                   \* ngOnDestroy has run
    pollTask,                    \* the pollOnce in flight: its position and its store
    callbacks,                   \* continuations pending: delayed callbacks and awaited calls
    indexing,                    \* upstream: per store, the files still in progress
    userOps                      \* what the user has done in the view so far

chatVars == <<body, pc, assistantId, threadId, runId, start, now, polls, status,
              messagesData, reply, res, threads, runPlan, calls, lastFail>>

regVars == <<regTask, regLog>>

idxVars == <<vectorStoreFileIdCache, listing, idxTask>>

metaVars == <<fileMetaCache, metaTask, metaLog>>

citeVars == <<citeMessage, citePc, deduped, metaPending, metas, citations>>

mirVars == <<s3Env, s3Objects, mirReq, mirTask, mirRes>>

convVars == <<selectedVectorStoreId, clientThreadId, context, convPc, sends, lastTurnFailed>>

storeVars == <<upTask, delTask, storeLog>>

shareVars == <<dialogue, activeRun, turnTask>>

viewVars == <<isLoading, viewMessages, viewError, outstanding, returnedFor, clicks>>

pollVars == <<selectedStore, storeFiles, pollIntervalId, pollInFlight, isPolling, timers,
              destroyed, pollTask, callbacks, indexing, userOps>>

vars == <<apiKey, assistantIdByVectorStoreId, chatVars, regVars, idxVars, metaVars,
          citeVars, mirVars, convVars, storeVars, shareVars, viewVars, pollVars>>

\* What the actions of one component leave alone.
nonChatVars == <<regVars, idxVars, metaVars, citeVars, mirVars, convVars, storeVars,
                 shareVars, viewVars, pollVars>>
nonRegVars == <<apiKey, chatVars, idxVars, metaVars, citeVars, mirVars, convVars, storeVars,
                shareVars, viewVars, pollVars>>
nonIdxVars == <<apiKey, assistantIdByVectorStoreId, body, pc, assistantId, threadId, runId,
                start, polls, status, messagesData, reply, res, threads, runPlan, calls,
                lastFail, regVars, metaVars, citeVars, mirVars, convVars, storeVars,
                shareVars, viewVars, pollVars>>
nonMetaVars == <<apiKey, assistantIdByVectorStoreId, chatVars, regVars, idxVars, citeVars,
                 mirVars, convVars, storeVars, shareVars, viewVars, pollVars>>
\* The resolver reads and writes the metadata cache and the membership index.
nonCiteVars == <<apiKey, assistantIdByVectorStoreId, chatVars, regVars, metaTask, metaLog,
                 listing, mirVars, convVars, storeVars, shareVars, viewVars, pollVars>>
\* The content endpoint reads the membership index.
nonMirVars == <<apiKey, assistantIdByVectorStoreId, chatVars, regVars, metaVars, citeVars,
                listing, convVars, storeVars, shareVars, viewVars, pollVars>>
\* The client sends requests to the chat handler and reads its responses.
nonConvVars == <<regVars, idxVars, metaVars, citeVars, mirVars, storeVars, shareVars,
                 viewVars, pollVars>>
\* The upload and delete handlers write the metadata cache, the upstream
\* memberships and the bucket.
nonStoreVars == <<apiKey, assistantIdByVectorStoreId, chatVars, regVars,
                  vectorStoreFileIdCache, idxTask, metaTask, metaLog, citeVars, s3Env,
                  mirReq, mirTask, mirRes, convVars, shareVars, viewVars, pollVars>>
\* The requests on the shared thread are seen through the upstream alone.
nonShareVars == <<apiKey, assistantIdByVectorStoreId, chatVars, regVars, idxVars, metaVars,
                  citeVars, mirVars, convVars, storeVars, viewVars, pollVars>>
\* ChatComponent is seen with a backend that answers each request in one step.
nonViewVars == <<apiKey, assistantIdByVectorStoreId, chatVars, regVars, idxVars, metaVars,
                 citeVars, mirVars, context, convPc, sends, lastTurnFailed, storeVars,
                 shareVars, pollVars>>
nonPollVars == <<apiKey, assistantIdByVectorStoreId, chatVars, regVars, idxVars, metaVars,
                 citeVars, mirVars, convVars, storeVars, shareVars, viewVars, userOps>>
nonPollUserVars == <<apiKey, assistantIdByVectorStoreId, chatVars, regVars, idxVars, metaVars,
                     citeVars, mirVars, convVars, storeVars, shareVars, viewVars>>

----------------------------------------------------------------------------
(* Bounds of the model *)

\* The longest run of non-terminal status answers a run plan scripts.
MaxPlan == 78

\* The longest run of non-terminal status answers of a turn with a short run.
MaxShortPlan == 2

\* The number of requests the client sends in one behaviour.
MaxSends == 3

\* The number of concurrent callers of the registry, and of calls they make.
NumCallers == 2
MaxCalls == 4

\* The number of items the upstream puts on one page of a membership listing,
\* and the number of files attached to the vector stores in one behaviour.
PageSize == 1
MaxAttached == 2

\* The number of getFileMeta calls the callers make in one behaviour.
MaxLookups == 4

\* The number of annotations of an assistant message.
MaxAnnotations == 3

\* The number of keys S3 puts on one page of a listing of objects to delete.
DeletePageSize == 1

(* Program constants *)

maxWaitMs == 60000
sleepIntervalMs == 800
ttlMs == 60000

\* Latencies of one status call, in ms: immediate, or slow.
Latencies == {0, 30000}

----------------------------------------------------------------------------
(* JavaScript values and string functions *)

Str(s) == [t |-> "string", v |-> s]
Undefined == [t |-> "undefined", v |-> <<>>]

IsWhite(c) == c \in {" ", "\n"}

RECURSIVE TrimStart(_)
TrimStart(s) == IF s # <<>> /\ IsWhite(Head(s)) THEN TrimStart(Tail(s)) ELSE s

RECURSIVE TrimEnd(_)
TrimEnd(s) ==
    IF s # <<>> /\ IsWhite(s[Len(s)]) THEN TrimEnd(SubSeq(s, 1, Len(s) - 1)) ELSE s

\* String.prototype.trim
Trim(s) == TrimEnd(TrimStart(s))

\* The string is taken as it is.
UntrimmedString(x) == IF x.t = "string" THEN x.v ELSE <<>>

\* typeof x === 'string' ? x.trim() : ''
TrimmedString(x) == IF x.t = "string" THEN Trim(x.v) ELSE <<>>

----------------------------------------------------------------------------
(* The upstream backend *)

VectorStoreIds == {<<"a">>, <<"b">>}
AssistantIds == {"asst_1", "asst_2"}
NoId == ""

\* A non-success response: its status code and its body (JSON or not).
UpstreamFailures ==
    { [status |-> 429, json |-> TRUE, doc |-> <<"error", "rate_limit_exceeded">>],
      [status |-> 502, json |-> FALSE, doc |-> <<"Bad Gateway">>] }

\* The record of a failure received: the response and the call it answered.
Failure(f, endpoint) ==
    [status |-> f.status, json |-> f.json, doc |-> f.doc, at |-> endpoint]
NoFail == [status |-> 0, json |-> TRUE, doc |-> <<>>, at |-> ""]

NonTerminal == {"queued", "in_progress", "requires_action", "incomplete"}
FailureTerminal == {"failed", "cancelled", "expired"}

\* A run answers `pending` to its first n status calls (to all of them when it
\* never ends) and `final` afterwards; a failed run may carry
\* last_error.message.
RunPlans ==
    { p \in [ends : BOOLEAN, n : 0..MaxPlan, pending : NonTerminal,
             final : {"completed"} \cup FailureTerminal,
             lastError : {"", "rate_limit_exceeded"}] :
        /\ p.final = "completed" => p.lastError = ""
        /\ ~p.ends => (p.n = 0 /\ p.final = "completed") }

StatusOfPoll(plan, k) ==
    IF ~plan.ends \/ k <= plan.n THEN plan.pending ELSE plan.final

Endpoints == {"createAssistant", "createThread", "addMessage", "createRun",
              "status", "messages", "cancelRun"}

\* The calls whose URL names a thread.
ThreadEndpoints == {"addMessage", "createRun", "status", "messages"}

\* The ids the upstream gives the threads it creates, in order; ids of threads
\* created earlier ("th_9") and an id no thread has ("th_8").
NewThreadIds == <<"th_1", "th_2", "th_3", "th_4">>
ThreadIds == {"th_1", "th_2", "th_3", "th_4", "th_8", "th_9"}

\* A thread of the upstream: whether it exists, the user messages appended to
\* it, and the number of calls addressed to it.
NoThread == [exists |-> FALSE, messages |-> <<>>, requests |-> 0]
NewThread == [exists |-> TRUE, messages |-> <<>>, requests |-> 0]
NumThreads(ts) == Cardinality({ i \in 1..Len(NewThreadIds) : ts[NewThreadIds[i]].exists })

\* The newest messages of the thread, newest first, as the messages call returns
\* them.  A content item is a text block (with its value and whether it carries
\* annotations) or another kind of block.
TextItem(v, cited) == [type |-> "text", value |-> v, cited |-> cited]
ImageItem == [type |-> "image_file", value |-> <<>>, cited |-> FALSE]
Message(role, content) == [role |-> role, content |-> content]
NoMessage == Message("none", <<>>)

MessageLists ==
    { <<>>,
      << Message("user", <<TextItem(<<"q">>, FALSE)>>) >>,
      << Message("assistant", <<ImageItem>>),
         Message("user", <<TextItem(<<"q">>, FALSE)>>) >>,
      << Message("assistant", <<TextItem(<<" ">>, FALSE)>>) >>,
      << Message("assistant", <<TextItem(<<"r">>, FALSE), TextItem(<<"s", " ">>, FALSE)>>),
         Message("user", <<TextItem(<<"q">>, FALSE)>>) >>,
      << Message("user", <<TextItem(<<"q">>, FALSE)>>),
         Message("assistant", <<TextItem(<<"r">>, TRUE)>>) >>,
      << Message("assistant", <<TextItem(<<"r">>, TRUE)>>),
         Message("user", <<TextItem(<<"q">>, FALSE)>>) >>,
      << Message("assistant", <<ImageItem>>),
         Message("assistant", <<TextItem(<<"o">>, FALSE)>>) >>,
      << Message("assistant", <<TextItem(<<"r">>, FALSE)>>),
         Message("user", <<TextItem(<<"q">>, FALSE)>>),
         Message("assistant", <<TextItem(<<"o">>, FALSE)>>) >> }

----------------------------------------------------------------------------
(* Pure helpers of server.ts *)

\* parts.join('\n')
RECURSIVE JoinLines(_)
JoinLines(parts) ==
    IF parts = <<>> THEN <<>>
    ELSE IF Len(parts) = 1 THEN parts[1]
    ELSE parts[1] \o <<"\n">> \o JoinLines(Tail(parts))

RECURSIVE TextParts(_)
TextParts(content) ==
    IF content = <<>> THEN <<>>
    ELSE LET item == Head(content)
         IN  (IF item.type = "text" /\ item.value # <<>> THEN <<item.value>> ELSE <<>>)
             \o TextParts(Tail(content))

extractAssistantText(message) == Trim(JoinLines(TextParts(message.content)))

\* The newest message, whatever its role.
FirstMessage(data) == IF data = <<>> THEN NoMessage ELSE Head(data)

\* messagesData.data.find((m) => m?.role === 'assistant')
RECURSIVE FindAssistant(_)
FindAssistant(data) ==
    IF data = <<>> THEN NoMessage
    ELSE IF Head(data).role = "assistant" THEN Head(data)
    ELSE FindAssistant(Tail(data))

HasAnnotations(message) == \E i \in 1..Len(message.content) : message.content[i].cited

\* await response.json().catch(() => ({ error: 'Unknown error' }))
ErrorData(f) == IF f.json THEN f.doc ELSE <<"error", "Unknown error">>

\* { error: message }
ErrorBody(message) == <<"error">> \o message

NoRes == [status |-> 0, body |-> <<>>, threadId |-> NoId]
Respond(code, doc) == [status |-> code, body |-> doc, threadId |-> NoId]

----------------------------------------------------------------------------
(* POST /api/assistants/chat *)

\* assistantIdByVectorStoreId.get(vectorStoreId)
RegistryGet(registry, v) == IF v \in DOMAIN registry THEN registry[v] ELSE NoId

Issue(endpoint) == [calls EXCEPT ![endpoint] = @ + 1]

\* fetch(`https://api.openai.com/v1/threads/${threadId}/...`)
Address(ts, t) == [ts EXCEPT ![t].requests = @ + 1]

\* The handler sends its response and returns.
Finish(response) ==
    /\ res' = response
    /\ pc' = "done"

\* A non-success response of a call the handler makes itself:
\* res.status(response.status).json(errorData)
PassThrough(f) == Respond(f.status, ErrorData(f))

\* A non-success response inside a helper: the helper throws
\* new Error(prefix + JSON.stringify(errorData)) and the handler's catch answers
\* 500 with the error's message.
Thrown(prefix, f) == Respond(500, ErrorBody(<<prefix>> \o ErrorData(f)))

\* The run is started on the request's thread before the message is appended.
ThreadStepRunFirst ==
    IF body.threadId.t = "string" /\ body.threadId.v # NoId
    THEN /\ threadId' = body.threadId.v
         /\ calls' = Issue("createRun")
         /\ threads' = Address(threads, body.threadId.v)
         /\ pc' = "createRun"
    ELSE /\ threadId' = NoId
         /\ calls' = Issue("createThread")
         /\ UNCHANGED threads
         /\ pc' = "createThread"

\* A thread is created whatever the request carries.
ThreadStepAlwaysCreate ==
    /\ threadId' = NoId
    /\ calls' = Issue("createThread")
    /\ UNCHANGED threads
    /\ pc' = "createThread"

\* server.ts 964-997: adopt the request's thread id or create a thread, then
\* append the user's message.
ThreadStep ==
    IF body.threadId.t = "string" /\ body.threadId.v # NoId
    THEN /\ threadId' = body.threadId.v
         /\ calls' = Issue("addMessage")
         /\ threads' = Address(threads, body.threadId.v)
         /\ pc' = "addMessage"
    ELSE /\ threadId' = NoId
         /\ calls' = Issue("createThread")
         /\ UNCHANGED threads
         /\ pc' = "createThread"

\* server.ts 941-962 and 656-681: the checks of the request, then the registry
\* lookup, up to the first await.
Receive ==
    /\ pc = "request"
    /\ UNCHANGED <<apiKey, assistantIdByVectorStoreId, body, runId, start, now, polls,
                   status, messagesData, reply, runPlan, lastFail>>
    /\ LET prompt == TrimmedString(body.prompt)
           vectorStoreId == TrimmedString(body.vectorStoreId)
           cached == RegistryGet(assistantIdByVectorStoreId, vectorStoreId)
       IN  IF ~apiKey
           THEN /\ Finish(Respond(500, ErrorBody(<<"OpenAI API key not configured">>)))
                /\ UNCHANGED <<assistantId, threadId, calls, threads>>
           ELSE IF prompt = <<>>
           THEN /\ Finish(Respond(400, ErrorBody(<<"Missing prompt">>)))
                /\ UNCHANGED <<assistantId, threadId, calls, threads>>
           ELSE IF vectorStoreId = <<>>
           THEN /\ Finish(Respond(400, ErrorBody(<<"Missing vectorStoreId">>)))
                /\ UNCHANGED <<assistantId, threadId, calls, threads>>
           ELSE IF cached # NoId
           THEN /\ assistantId' = cached
                /\ ThreadStep
                /\ UNCHANGED res
           ELSE /\ calls' = Issue("createAssistant")
                /\ pc' = "createAssistant"
                /\ UNCHANGED <<assistantId, threadId, res, threads>>

\* server.ts 683-690, then 964-997.
AssistantCreated ==
    /\ pc = "createAssistant"
    /\ \E id \in AssistantIds :
        /\ assistantIdByVectorStoreId' =
              [assistantIdByVectorStoreId EXCEPT ![TrimmedString(body.vectorStoreId)] = id]
        /\ assistantId' = id
    /\ ThreadStep
    /\ UNCHANGED <<apiKey, body, runId, start, now, polls, status, messagesData, reply,
                   res, runPlan, lastFail>>

\* server.ts 683-686 and 1092-1097.
AssistantFailed ==
    /\ pc = "createAssistant"
    /\ \E f \in UpstreamFailures :
        /\ lastFail' = Failure(f, "createAssistant")
        /\ Finish(Thrown("Failed to create assistant: ", f))
    /\ UNCHANGED <<apiKey, assistantIdByVectorStoreId, body, assistantId, threadId, runId,
                   start, now, polls, status, messagesData, reply, threads, runPlan, calls>>

\* The call that answered non-success is issued again.
CallFailedRetried ==
    /\ pc \in {"createThread", "addMessage", "createRun", "status", "messages"}
    /\ calls[pc] < 3
    /\ \E f \in UpstreamFailures : lastFail' = Failure(f, pc)
    /\ calls' = Issue(pc)
    /\ UNCHANGED <<apiKey, assistantIdByVectorStoreId, body, pc, assistantId, threadId, runId,
                   start, now, polls, status, messagesData, reply, res, threads, runPlan>>

\* A call of the handler itself answers non-success (server.ts 976-980,
\* 999-1003, 1017-1021, 1038-1042, 1072-1076).
CallFailed ==
    /\ pc \in {"createThread", "addMessage", "createRun", "status", "messages"}
    /\ \E f \in UpstreamFailures :
        /\ lastFail' = Failure(f, pc)
        /\ Finish(PassThrough(f))
    /\ UNCHANGED <<apiKey, assistantIdByVectorStoreId, body, assistantId, threadId, runId,
                   start, now, polls, status, messagesData, reply, threads, runPlan, calls>>

\* server.ts 982-997.
ThreadCreated ==
    /\ pc = "createThread"
    /\ NumThreads(threads) < Len(NewThreadIds)
    /\ LET id == NewThreadIds[NumThreads(threads) + 1]
       IN  /\ threadId' = id
           /\ threads' = Address([threads EXCEPT ![id] = NewThread], id)
    /\ calls' = Issue("addMessage")
    /\ pc' = "addMessage"
    /\ UNCHANGED <<apiKey, assistantIdByVectorStoreId, body, assistantId, runId, start, now,
                   polls, status, messagesData, reply, res, runPlan, lastFail>>

\* server.ts 1005-1015: the thread exists and took the user's message.
MessageAdded ==
    /\ pc = "addMessage"
    /\ threads[threadId].exists
    /\ threads' = Address([threads EXCEPT ![threadId].messages =
                                Append(@, TrimmedString(body.prompt))], threadId)
    /\ calls' = Issue("createRun")
    /\ pc' = "createRun"
    /\ UNCHANGED <<apiKey, assistantIdByVectorStoreId, body, assistantId, threadId, runId,
                   start, now, polls, status, messagesData, reply, res, runPlan, lastFail>>

\* server.ts 1023-1036: the run exists, the clock is read and the first status
\* call is issued.
RunCreated ==
    /\ pc = "createRun"
    /\ runId' = "run_1"
    /\ start' = now
    /\ polls' = 1
    /\ calls' = Issue("status")
    /\ threads' = Address(threads, threadId)
    /\ pc' = "status"
    /\ UNCHANGED <<apiKey, assistantIdByVectorStoreId, body, assistantId, threadId, now,
                   status, messagesData, reply, res, runPlan, lastFail>>

\* The budget counted as exceeded once it is reached.
TimedOutAtBudget(t) == t - start >= maxWaitMs

\* The budget extended by one more delay.
TimedOutLate(t) == t - start > maxWaitMs + sleepIntervalMs

\* Date.now() - start > maxWaitMs
TimedOut(t) == t - start > maxWaitMs

\* The reason is always the generic text.
RunFailedReasonGeneric(lastError, s) == <<"Run ", s>>

\* statusData.last_error?.message || `Run ${status}`
RunFailedReason(lastError, s) == IF lastError # "" THEN <<lastError>> ELSE <<"Run ", s>>

\* Every status ends the loop in success.
AnyStatusSucceeds(s) == TRUE

\* status === 'completed'
IsSuccessTerminal(s) == s = "completed"

\* A run that needs action counts as failed.
IsFailureTerminalOrActionRequired(s) == s \in FailureTerminal \cup {"requires_action"}

\* status === 'failed' || status === 'cancelled' || status === 'expired'
IsFailureTerminal(s) == s \in FailureTerminal

\* The run is cancelled upstream when the handler gives it up.
CancelIssued(cs) == [cs EXCEPT !["cancelRun"] = @ + 1]

\* server.ts 1051-1059: res.status(...).json(...); return; no call is issued
\* for a run that failed or was not waited for any longer.
AfterRunGivenUp(cs) == cs

\* server.ts 1044-1070: a status response arrives after some latency.
StatusReceived ==
    /\ pc = "status"
    /\ \E latency \in Latencies : now' = now + latency
    /\ status' = StatusOfPoll(runPlan, polls)
    /\ IF IsSuccessTerminal(status')
       THEN /\ calls' = Issue("messages")
            /\ threads' = Address(threads, threadId)
            /\ pc' = "messages"
            /\ UNCHANGED res
       ELSE IF IsFailureTerminal(status')
       THEN /\ Finish(Respond(500, ErrorBody(RunFailedReason(runPlan.lastError, status'))))
            /\ calls' = AfterRunGivenUp(calls)
            /\ UNCHANGED threads
       ELSE IF TimedOut(now')
       THEN /\ Finish(Respond(504, ErrorBody(<<"Timed out waiting for assistant response">>)))
            /\ calls' = AfterRunGivenUp(calls)
            /\ UNCHANGED threads
       ELSE /\ pc' = "sleep"
            /\ UNCHANGED <<res, calls, threads>>
    /\ UNCHANGED <<apiKey, assistantIdByVectorStoreId, body, assistantId, threadId, runId,
                   start, polls, messagesData, reply, runPlan, lastFail>>

\* server.ts 1061 and 1030: the delay ends and the next status call is issued.
SleepDone ==
    /\ pc = "sleep"
    /\ now' = now + sleepIntervalMs
    /\ polls' = polls + 1
    /\ calls' = Issue("status")
    /\ threads' = Address(threads, threadId)
    /\ pc' = "status"
    /\ UNCHANGED <<apiKey, assistantIdByVectorStoreId, body, assistantId, threadId, runId,
                   start, status, messagesData, reply, res, runPlan, lastFail>>

\* The reply is sent only when a mirror bucket is configured.
ReplyWhenMirrored(text) ==
    IF s3Env.bucket = <<>> THEN Respond(500, ErrorBody(<<"S3 mirror not configured">>))
    ELSE [status |-> 200, body |-> <<"reply">> \o text, threadId |-> threadId]

\* { reply, threadId, citations }
Reply(text) == [status |-> 200, body |-> <<"reply">> \o text, threadId |-> threadId]

\* server.ts 1078-1091: the newest messages arrive; the reply is extracted.
MessagesReceived ==
    /\ pc = "messages"
    /\ \E data \in MessageLists :
         LET assistantMessage == FindAssistant(data)
         IN  /\ messagesData' = data
             /\ reply' = extractAssistantText(assistantMessage)
             /\ IF reply' = <<>>
                THEN Finish(Respond(500, ErrorBody(<<"No assistant reply found">>)))
                ELSE IF ~HasAnnotations(assistantMessage)
                THEN Finish(Reply(reply'))
                ELSE /\ pc' = "citations"
                     /\ UNCHANGED res
    /\ UNCHANGED <<apiKey, assistantIdByVectorStoreId, body, assistantId, threadId, runId,
                   start, now, polls, status, threads, runPlan, calls, lastFail>>

\* server.ts 1089-1091: the citations are resolved.
CitationsResolved ==
    /\ pc = "citations"
    /\ Finish(Reply(reply))
    /\ UNCHANGED <<apiKey, assistantIdByVectorStoreId, body, assistantId, threadId, runId,
                   start, now, polls, status, messagesData, reply, threads, runPlan, calls,
                   lastFail>>

\* server.ts 806-809 and 1092-1097: the membership listing answers non-success.
CitationsFailed ==
    /\ pc = "citations"
    /\ \E f \in UpstreamFailures :
        /\ lastFail' = Failure(f, "listFiles")
        /\ Finish(Thrown("Failed to list vector store files for mapping: ", f))
    /\ UNCHANGED <<apiKey, assistantIdByVectorStoreId, body, assistantId, threadId, runId,
                   start, now, polls, status, messagesData, reply, threads, runPlan, calls>>

ChatNext ==
    \/ Receive /\ UNCHANGED nonChatVars
    \/ AssistantCreated /\ UNCHANGED nonChatVars
    \/ AssistantFailed /\ UNCHANGED nonChatVars
    \/ CallFailed /\ UNCHANGED nonChatVars
    \/ ThreadCreated /\ UNCHANGED nonChatVars
    \/ MessageAdded /\ UNCHANGED nonChatVars
    \/ RunCreated /\ UNCHANGED nonChatVars
    \/ StatusReceived /\ UNCHANGED nonChatVars
    \/ SleepDone /\ UNCHANGED nonChatVars
    \/ MessagesReceived /\ UNCHANGED nonChatVars
    \/ CitationsResolved /\ UNCHANGED nonChatVars
    \/ CitationsFailed /\ UNCHANGED nonChatVars

----------------------------------------------------------------------------
(* getOrCreateAssistantForVectorStore, called by concurrent requests *)

Callers == 1..NumCallers

\* The ids the upstream gives the assistants it creates, in order.
FreshAssistantIds == <<"asst_1", "asst_2", "asst_3", "asst_4", "asst_5", "asst_6">>

IdleTask == [pc |-> "idle", v |-> <<>>, hit |-> FALSE, fetches |-> 0, result |-> NoId]

\* Per vector store: calls started, creation calls issued, assistants created,
\* creation calls that failed, calls that returned an id, creation calls issued
\* after a call had returned an id, and whether two calls for it ever
\* overlapped.
EmptyLog == [started |-> 0, createCalls |-> 0, created |-> 0, failed |-> 0, returned |-> 0,
             createCallsAfterReturn |-> 0, overlapped |-> FALSE]

RegIdle ==
    /\ regTask = [c \in Callers |-> IdleTask]
    /\ regLog = [v \in VectorStoreIds |-> EmptyLog]

TotalOf(field) ==
    LET RECURSIVE Sum(_)
        Sum(S) == IF S = {} THEN 0
                  ELSE LET v == CHOOSE x \in S : TRUE
                       IN  regLog[v][field] + Sum(S \ {v})
    IN  Sum(VectorStoreIds)

InFlight(v) == \E c \in Callers : regTask[c].pc = "create" /\ regTask[c].v = v

\* server.ts 656-681: the lookup; on a miss the creation call is issued.
RegCall(c, v) ==
    /\ regTask[c].pc = "idle"
    /\ TotalOf("started") < MaxCalls
    /\ LET cached == assistantIdByVectorStoreId[v]
           log == [regLog[v] EXCEPT !.started = @ + 1,
                                    !.overlapped = @ \/ InFlight(v)]
       IN  IF cached # NoId
           THEN /\ regTask' = [regTask EXCEPT ![c] =
                      [pc |-> "returned", v |-> v, hit |-> TRUE, fetches |-> 0,
                       result |-> cached]]
                /\ regLog' = [regLog EXCEPT ![v] = [log EXCEPT !.returned = @ + 1]]
           ELSE /\ regTask' = [regTask EXCEPT ![c] =
                      [pc |-> "create", v |-> v, hit |-> FALSE, fetches |-> 1,
                       result |-> NoId]]
                /\ regLog' = [regLog EXCEPT ![v] =
                      [log EXCEPT !.createCalls = @ + 1,
                                  !.createCallsAfterReturn =
                                      IF log.returned > 0 THEN @ + 1 ELSE @]]
    /\ UNCHANGED assistantIdByVectorStoreId

\* The created assistant is returned and not stored.
MemoizeNothing(registry, v, id) == registry

\* assistantIdByVectorStoreId.set(vectorStoreId, data.id)
Memoize(registry, v, id) == [registry EXCEPT ![v] = id]

\* server.ts 688-690: the creation call succeeded.
RegCreated(c) ==
    /\ regTask[c].pc = "create"
    /\ LET v == regTask[c].v
           id == FreshAssistantIds[TotalOf("created") + 1]
       IN  /\ assistantIdByVectorStoreId' = Memoize(assistantIdByVectorStoreId, v, id)
           /\ regTask' = [regTask EXCEPT ![c].pc = "returned", ![c].result = id]
           /\ regLog' = [regLog EXCEPT ![v].created = @ + 1, ![v].returned = @ + 1]

\* The failure is stored in place of an id.
MemoizeFailure(registry, v) == [registry EXCEPT ![v] = "failed"]

\* throw new Error(...): the registry is not written.
AfterFailure(registry, v) == registry

\* server.ts 683-686: the creation call failed and the function throws.
RegFailed(c) ==
    /\ regTask[c].pc = "create"
    /\ assistantIdByVectorStoreId' = AfterFailure(assistantIdByVectorStoreId, regTask[c].v)
    /\ regTask' = [regTask EXCEPT ![c].pc = "thrown"]
    /\ regLog' = [regLog EXCEPT ![regTask[c].v].failed = @ + 1]

\* The caller goes on with the result; it may call again.
RegDone(c) ==
    /\ regTask[c].pc \in {"returned", "thrown"}
    /\ regTask' = [regTask EXCEPT ![c] = IdleTask]
    /\ UNCHANGED <<assistantIdByVectorStoreId, regLog>>

RegistryNext ==
    \/ \E c \in Callers, v \in VectorStoreIds : RegCall(c, v) /\ UNCHANGED nonRegVars
    \/ \E c \in Callers : RegCreated(c) /\ UNCHANGED nonRegVars
    \/ \E c \in Callers : RegFailed(c) /\ UNCHANGED nonRegVars
    \/ \E c \in Callers : RegDone(c) /\ UNCHANGED nonRegVars

----------------------------------------------------------------------------
(* getVectorStoreFileIdByOpenAIFileId: the membership index *)

\* String.prototype.startsWith
StartsWith(s, prefix) ==
    Len(s) >= Len(prefix) /\ SubSeq(s, 1, Len(prefix)) = prefix

FilePrefix == <<"f", "i", "l", "e", "-">>
FileId(n) == FilePrefix \o <<n>>
MembershipId(n) == <<"v", "s", "f", "_", n>>

\* The items a membership listing can hold: { id, file_id }.  A missing
\* file_id is the empty string, as the code reads it.
ListingItems ==
    { [id |-> MembershipId("1"), file_id |-> FileId("1")],
      [id |-> FileId("2"), file_id |-> <<>>],
      [id |-> MembershipId("4"), file_id |-> <<>>] }

RequestedFileIds == {FileId("1"), FileId("2")}

\* The file ids a message can cite: the two above and one with a colon in it.
CitedFileIds == RequestedFileIds \cup {FileId("1") \o <<":">>}

\* A Map<string, string> is a function on its keys.
EmptyMap == <<>>
MapSet(m, k, x) == [y \in DOMAIN m \cup {k} |-> IF y = k THEN x ELSE m[y]]
MapHas(m, k) == k \in DOMAIN m

NoIndex == [present |-> FALSE, createdAtMs |-> 0, byOpenAIFileId |-> EmptyMap]

\* The instants at which the clock is read.
Instants == {0, 1000, 59999, 60000, 61000}

IdleIdxTask ==
    [pc |-> "idle", v |-> <<>>, openaiFileIds |-> {}, after |-> <<>>,
     byOpenAIFileId |-> EmptyMap, result |-> EmptyMap,
     fromCache |-> FALSE, age |-> -1, pages |-> 0]

IdxIdle ==
    /\ vectorStoreFileIdCache = [v \in VectorStoreIds |-> NoIndex]
    /\ listing = [v \in VectorStoreIds |-> <<>>]
    /\ idxTask = IdleIdxTask

\* The index counts as fresh when it is one ttlMs old.
FreshAtTtl(cached, t) == cached.present /\ t - cached.createdAtMs <= ttlMs

\* cached && Date.now() - cached.createdAtMs < ttlMs
Fresh(cached, t) == cached.present /\ t - cached.createdAtMs < ttlMs

\* server.ts 784: the parameter openaiFileIds is not read.
AnswersFromCache(cached, t, openaiFileIds) == Fresh(cached, t)

\* server.ts 775-804: the lookup of the cache; when it does not answer, the
\* first page of the listing is requested.
IdxCall(v, openaiFileIds) ==
    /\ idxTask.pc = "idle"
    /\ LET cached == vectorStoreFileIdCache[v]
           age == IF cached.present THEN now - cached.createdAtMs ELSE -1
       IN  IF AnswersFromCache(cached, now, openaiFileIds)
           THEN idxTask' = [IdleIdxTask EXCEPT
                    !.pc = "returned", !.v = v, !.openaiFileIds = openaiFileIds,
                    !.result = cached.byOpenAIFileId, !.fromCache = TRUE, !.age = age]
           ELSE idxTask' = [IdleIdxTask EXCEPT
                    !.pc = "page", !.v = v, !.openaiFileIds = openaiFileIds,
                    !.age = age, !.pages = 1]
    /\ UNCHANGED <<vectorStoreFileIdCache, listing, now>>

\* The position of the item with this id in a listing, 0 when there is none.
PositionOf(items, id) ==
    IF \E i \in 1..Len(items) : items[i].id = id
    THEN CHOOSE i \in 1..Len(items) : items[i].id = id
    ELSE 0

\* The page the upstream answers for the cursor `after`.
PageAfter(items, after) ==
    LET from == IF after = <<>> THEN 1 ELSE PositionOf(items, after) + 1
        to == IF from + PageSize - 1 < Len(items) THEN from + PageSize - 1 ELSE Len(items)
    IN  [data |-> SubSeq(items, from, to), has_more |-> to < Len(items)]

\* server.ts 817-832: the items of one page are entered into the map.
RECURSIVE AddItems(_, _)
AddItems(m, items) ==
    IF items = <<>> THEN m
    ELSE LET item == Head(items)
             vectorStoreFileId == item.id
             openaiFileId ==
                 IF item.file_id # <<>> THEN item.file_id
                 ELSE IF StartsWith(vectorStoreFileId, FilePrefix) THEN vectorStoreFileId
                 ELSE <<>>
             m1 == IF vectorStoreFileId # <<>> /\ openaiFileId # <<>>
                   THEN LET m0 == MapSet(m, openaiFileId, vectorStoreFileId)
                        IN  IF StartsWith(vectorStoreFileId, FilePrefix)
                            THEN MapSet(m0, vectorStoreFileId, vectorStoreFileId)
                            ELSE m0
                   ELSE m
         IN  AddItems(m1, Tail(items))

\* The loop ends with the first page.
LoopEndsAfterOnePage(page, lastId) == TRUE

\* server.ts 834-841: if (!data?.has_more || items.length === 0) break;
\* if (!lastId) break;
LoopEnds(page, lastId) == ~page.has_more \/ page.data = <<>> \/ lastId = <<>>

\* server.ts 811-846: a page arrives; the loop asks for the next page or
\* stores the index.
IdxPage ==
    /\ idxTask.pc = "page"
    /\ LET page == PageAfter(listing[idxTask.v], idxTask.after)
           items == page.data
           byOpenAIFileId == AddItems(idxTask.byOpenAIFileId, items)
           lastId == IF items = <<>> THEN <<>> ELSE items[Len(items)].id
       IN  IF LoopEnds(page, lastId)
           THEN /\ vectorStoreFileIdCache' =
                      [vectorStoreFileIdCache EXCEPT ![idxTask.v] =
                          [present |-> TRUE, createdAtMs |-> now,
                           byOpenAIFileId |-> byOpenAIFileId]]
                /\ idxTask' = [idxTask EXCEPT !.pc = "returned",
                                              !.byOpenAIFileId = byOpenAIFileId,
                                              !.result = byOpenAIFileId]
           ELSE /\ idxTask' = [idxTask EXCEPT !.after = lastId,
                                              !.byOpenAIFileId = byOpenAIFileId,
                                              !.pages = @ + 1]
                /\ UNCHANGED vectorStoreFileIdCache
    /\ UNCHANGED <<listing, now>>

\* The map built so far is stored when a page request fails.
PartialIndexStored(cache, task, t) ==
    [cache EXCEPT ![task.v] = [present |-> TRUE, createdAtMs |-> t,
                               byOpenAIFileId |-> task.byOpenAIFileId]]

\* server.ts 806-809: the throw comes before vectorStoreFileIdCache.set (843).
CacheAfterFailure(cache, task, t) == cache

\* server.ts 806-809: a page request answers non-success; the function throws.
IdxPageFailed ==
    /\ idxTask.pc = "page"
    /\ idxTask' = [idxTask EXCEPT !.pc = "thrown"]
    /\ vectorStoreFileIdCache' = CacheAfterFailure(vectorStoreFileIdCache, idxTask, now)
    /\ UNCHANGED <<listing, now>>

\* The caller goes on with the result.
IdxDone ==
    /\ idxTask.pc \in {"returned", "thrown"}
    /\ idxTask' = IdleIdxTask
    /\ UNCHANGED <<vectorStoreFileIdCache, listing, now>>

Attached == Len(listing[<<"a">>]) + Len(listing[<<"b">>])

\* Upstream: a file is attached to a vector store (POST .../files).
Attach(v, item) ==
    /\ Attached < MaxAttached
    /\ \A i \in 1..Len(listing[v]) : listing[v][i].id # item.id
    /\ listing' = [listing EXCEPT ![v] = Append(@, item)]
    /\ UNCHANGED <<vectorStoreFileIdCache, idxTask, now>>

\* Time passes.
Tick ==
    /\ \E t \in Instants : t > now /\ now' = t
    /\ UNCHANGED <<vectorStoreFileIdCache, listing, idxTask>>

IndexNext ==
    \/ \E v \in VectorStoreIds, f \in RequestedFileIds :
          IdxCall(v, {f}) /\ UNCHANGED nonIdxVars
    \/ IdxPage /\ UNCHANGED nonIdxVars
    \/ IdxPageFailed /\ UNCHANGED nonIdxVars
    \/ IdxDone /\ UNCHANGED nonIdxVars
    \/ \E v \in VectorStoreIds, item \in ListingItems :
          Attach(v, item) /\ UNCHANGED nonIdxVars
    \/ Tick /\ UNCHANGED nonIdxVars

----------------------------------------------------------------------------
(* getFileMeta: the file metadata cache *)

\* A FileMeta: filename and bytes, each possibly undefined ("" and -1).  The
\* cache holds for a file id no entry or a FileMeta.
FileMeta(filename, bytes) == [present |-> TRUE, filename |-> filename, bytes |-> bytes]
NoFileMeta == FileMeta("", -1)
NoEntry == [present |-> FALSE, filename |-> "", bytes |-> -1]

\* What GET /v1/files/:id answers for a file when it succeeds.
UpstreamFileMeta(f) ==
    IF f = FileId("1") THEN FileMeta("policy.pdf", 10) ELSE FileMeta("terms.txt", 20)

IdleMetaTask == [pc |-> "idle", fileId |-> <<>>, hit |-> FALSE, result |-> NoEntry]

\* Per file id: upstream requests issued, whether a lookup was answered
\* non-success, and the requests issued after that.
EmptyMetaLog == [lookups |-> 0, requests |-> 0, failed |-> FALSE, requestsAfterFailure |-> 0]

MetaIdle ==
    /\ fileMetaCache = [f \in CitedFileIds |-> NoEntry]
    /\ metaTask = [c \in Callers |-> IdleMetaTask]
    /\ metaLog = [f \in RequestedFileIds |-> EmptyMetaLog]

Lookups ==
    LET RECURSIVE Sum(_)
        Sum(S) == IF S = {} THEN 0
                  ELSE LET f == CHOOSE x \in S : TRUE
                       IN  metaLog[f].lookups + Sum(S \ {f})
    IN  Sum(DOMAIN metaLog)

\* Only an entry that names the file counts as cached.
CachedIfNamed(entry) == entry.present /\ entry.filename # ""

\* const cached = fileMetaCache.get(fileId); if (cached): an object, also the
\* empty one, is truthy.
Cached(entry) == entry.present

\* server.ts 872-883: the lookup; on a miss the metadata request is issued.
MetaCall(c, f) ==
    /\ metaTask[c].pc = "idle"
    /\ Lookups < MaxLookups
    /\ IF Cached(fileMetaCache[f])
       THEN /\ metaTask' = [metaTask EXCEPT ![c] =
                  [pc |-> "returned", fileId |-> f, hit |-> TRUE,
                   result |-> fileMetaCache[f]]]
            /\ metaLog' = [metaLog EXCEPT ![f].lookups = @ + 1]
       ELSE /\ metaTask' = [metaTask EXCEPT ![c] =
                  [pc |-> "fetch", fileId |-> f, hit |-> FALSE, result |-> NoEntry]]
            /\ metaLog' = [metaLog EXCEPT
                  ![f].lookups = @ + 1,
                  ![f].requests = @ + 1,
                  ![f].requestsAfterFailure = IF metaLog[f].failed THEN @ + 1 ELSE @]
    /\ UNCHANGED fileMetaCache

\* server.ts 893-896: the request succeeded.
MetaFetched(c) ==
    /\ metaTask[c].pc = "fetch"
    /\ LET f == metaTask[c].fileId
           meta == UpstreamFileMeta(f)
       IN  /\ fileMetaCache' = [fileMetaCache EXCEPT ![f] = meta]
           /\ metaTask' = [metaTask EXCEPT ![c].pc = "returned", ![c].result = meta]
    /\ UNCHANGED metaLog

\* server.ts 885-891: the request answered non-success; the empty FileMeta
\* is cached and returned.
MetaFailed(c) ==
    /\ metaTask[c].pc = "fetch"
    /\ LET f == metaTask[c].fileId
           fallback == NoFileMeta
       IN  /\ fileMetaCache' = [fileMetaCache EXCEPT ![f] = fallback]
           /\ metaTask' = [metaTask EXCEPT ![c].pc = "failed", ![c].result = fallback]
           /\ metaLog' = [metaLog EXCEPT ![f].failed = TRUE]

\* The caller goes on with the result; it may call again.
MetaDone(c) ==
    /\ metaTask[c].pc \in {"returned", "failed"}
    /\ metaTask' = [metaTask EXCEPT ![c] = IdleMetaTask]
    /\ UNCHANGED <<fileMetaCache, metaLog>>

MetaNext ==
    \/ \E c \in Callers, f \in RequestedFileIds : MetaCall(c, f) /\ UNCHANGED nonMetaVars
    \/ \E c \in Callers : MetaFetched(c) /\ UNCHANGED nonMetaVars
    \/ \E c \in Callers : MetaFailed(c) /\ UNCHANGED nonMetaVars
    \/ \E c \in Callers : MetaDone(c) /\ UNCHANGED nonMetaVars

----------------------------------------------------------------------------
(* extractAssistantCitations and extractAssistantCitationsForVectorStore *)

\* An annotation of a text block: its type, and the file_id and quote of its
\* file_citation or file_path member.
Annotation(type, fileId, quote) == [type |-> type, file_id |-> fileId, quote |-> quote]

Annotations ==
    { Annotation("file_citation", Str(FileId("1")), Undefined),
      Annotation("file_citation", Str(FileId("1")), Str(<<>>)),
      Annotation("file_citation", Str(FileId("1")), Str(<<"q">>)),
      Annotation("file_citation", Str(FileId("1")), Str(<<":", "q">>)),
      Annotation("file_citation", Str(FileId("1") \o <<":">>), Str(<<"q">>)),
      Annotation("file_citation", Str(FileId("2")), Str(<<"q">>)),
      Annotation("file_path", Str(FileId("1")), Undefined),
      Annotation("url_citation", Undefined, Undefined) }

AnnotationLists == UNION { [1..n -> Annotations] : n \in 0..MaxAnnotations }

\* The content of a message with these annotations: a text block with the
\* first one, an image block, and a text block with the others.
Block(type, annotations) == [type |-> type, annotations |-> annotations]

ContentOf(annotations) ==
    IF annotations = <<>> THEN << Block("text", <<>>) >>
    ELSE << Block("text", <<Head(annotations)>>),
            Block("image_file", annotations),
            Block("text", Tail(annotations)) >>

Citation(fileId, quote) == [fileId |-> fileId, quote |-> quote]

\* server.ts 724-736: the raw citations of one annotation list.
RECURSIVE CitationsOfAnnotations(_)
CitationsOfAnnotations(annotations) ==
    IF annotations = <<>> THEN <<>>
    ELSE LET ann == Head(annotations)
             here ==
                 IF ann.type = "file_citation" /\ ann.file_id.t = "string"
                 THEN << Citation(ann.file_id.v,
                                  IF ann.quote.t = "string" THEN ann.quote ELSE Undefined) >>
                 ELSE IF ann.type = "file_path" /\ ann.file_id.t = "string"
                 THEN << Citation(ann.file_id.v, Undefined) >>
                 ELSE <<>>
         IN  here \o CitationsOfAnnotations(Tail(annotations))

\* server.ts 713-737: the raw citations of the text blocks, in document order.
RECURSIVE RawCitations(_)
RawCitations(content) ==
    IF content = <<>> THEN <<>>
    ELSE (IF Head(content).type = "text"
          THEN CitationsOfAnnotations(Head(content).annotations)
          ELSE <<>>)
         \o RawCitations(Tail(content))

\* The key is the file id alone.
KeyOfFileOnly(c) == c.fileId

\* `${c.fileId}::${c.quote ?? ''}`
KeyOf(c) == c.fileId \o <<":", ":">> \o (IF c.quote.t = "string" THEN c.quote.v ELSE <<>>)

\* Every citation is kept.
DedupeNothing(raw) == raw

\* server.ts 739-748: the first citation of each key is kept, in order.
Dedupe(raw) ==
    LET RECURSIVE Loop(_, _, _)
        Loop(rest, seen, out) ==
            IF rest = <<>> THEN out
            ELSE LET c == Head(rest)
                     key == KeyOf(c)
                 IN  IF key \in seen THEN Loop(Tail(rest), seen, out)
                     ELSE Loop(Tail(rest), seen \cup {key}, Append(out, c))
    IN  Loop(raw, {}, <<>>)

CiteIdle ==
    /\ citeMessage = <<>>
    /\ citePc = "idle"
    /\ deduped = <<>>
    /\ metaPending = {}
    /\ metas = <<>>
    /\ citations = <<>>

\* The vector store of the request.
CiteStore == <<"a">>

\* server.ts 750-762: the enriched citations, in the order of deduped.
Enriched(ds, ms) ==
    [i \in 1..Len(ds) |->
        [fileId |-> ds[i].fileId, filename |-> ms[i].filename, bytes |-> ms[i].bytes,
         quote |-> ds[i].quote, vectorStoreFileId |-> <<>>]]

\* The citations are returned without their membership ids.
MembershipOmitted(cs, map) == cs

\* server.ts 861-865: each citation with its membership id, when the map has one.
WithMembership(cs, map) ==
    [i \in 1..Len(cs) |->
        [cs[i] EXCEPT !.vectorStoreFileId =
            IF MapHas(map, cs[i].fileId) THEN map[cs[i].fileId] ELSE <<>>]]

\* The file ids of the citations (server.ts 855).
FileIdsOf(cs) == { cs[i].fileId : i \in { j \in 1..Len(cs) : cs[j].fileId # <<>> } }

\* server.ts 855-860, once every getFileMeta has answered: without file ids
\* the citations are returned, otherwise the membership index is asked.
AfterEnrichment(ds, ms) ==
    IF FileIdsOf(Enriched(ds, ms)) = {}
    THEN /\ citations' = Enriched(ds, ms)
         /\ citePc' = "returned"
         /\ UNCHANGED <<idxTask, vectorStoreFileIdCache, now>>
    ELSE /\ citations' = Enriched(ds, ms)
         /\ IdxCall(CiteStore, FileIdsOf(Enriched(ds, ms)))
         /\ citePc' = "mapping"

\* server.ts 854, 707-752: the citations are collected and deduplicated, and
\* getFileMeta is called for each of them; those not cached are requested.
CiteStart ==
    /\ citePc = "start"
    /\ LET ds == Dedupe(RawCitations(citeMessage))
           pending == { i \in 1..Len(ds) : ~Cached(fileMetaCache[ds[i].fileId]) }
           ms == [i \in 1..Len(ds) |->
                    IF i \in pending THEN NoEntry ELSE fileMetaCache[ds[i].fileId]]
       IN  /\ deduped' = ds
           /\ metaPending' = pending
           /\ metas' = ms
           /\ IF pending = {}
              THEN AfterEnrichment(ds, ms)
              ELSE /\ citePc' = "enriching"
                   /\ UNCHANGED <<citations, idxTask, vectorStoreFileIdCache, now>>
    /\ UNCHANGED <<citeMessage, fileMetaCache>>

\* server.ts 885-896: the metadata request of position i answers, with
\* success or not; the last answer ends the Promise.all.
CiteMetaAnswered(i, ok) ==
    /\ citePc = "enriching"
    /\ i \in metaPending
    /\ LET f == deduped[i].fileId
           meta == IF ok THEN UpstreamFileMeta(f) ELSE NoFileMeta
           ms == [metas EXCEPT ![i] = meta]
       IN  /\ fileMetaCache' = [fileMetaCache EXCEPT ![f] = meta]
           /\ metas' = ms
           /\ metaPending' = metaPending \ {i}
           /\ IF metaPending' = {}
              THEN AfterEnrichment(deduped, ms)
              ELSE UNCHANGED <<citePc, citations, idxTask, vectorStoreFileIdCache, now>>
    /\ UNCHANGED <<citeMessage, deduped>>

\* A page of the membership listing arrives (or fails) for the resolver.
CiteIdxPage ==
    /\ citePc = "mapping"
    /\ IdxPage
    /\ UNCHANGED <<citeVars, fileMetaCache>>

CiteIdxPageFailed ==
    /\ citePc = "mapping"
    /\ IdxPageFailed
    /\ UNCHANGED <<citeVars, fileMetaCache>>

\* server.ts 860-865: the index has answered.
CiteMapped ==
    /\ citePc = "mapping"
    /\ idxTask.pc = "returned"
    /\ citations' = WithMembership(citations, idxTask.result)
    /\ citePc' = "returned"
    /\ idxTask' = IdleIdxTask
    /\ UNCHANGED <<citeMessage, deduped, metaPending, metas, fileMetaCache,
                   vectorStoreFileIdCache, now>>

\* The listing failed: the resolver throws.
CiteThrown ==
    /\ citePc = "mapping"
    /\ idxTask.pc = "thrown"
    /\ citePc' = "thrown"
    /\ idxTask' = IdleIdxTask
    /\ UNCHANGED <<citeMessage, deduped, metaPending, metas, citations, fileMetaCache,
                   vectorStoreFileIdCache, now>>

CiteNext ==
    \/ CiteStart /\ UNCHANGED nonCiteVars
    \/ \E i \in 1..MaxAnnotations, ok \in BOOLEAN :
          CiteMetaAnswered(i, ok) /\ UNCHANGED nonCiteVars
    \/ CiteIdxPage /\ UNCHANGED nonCiteVars
    \/ CiteIdxPageFailed /\ UNCHANGED nonCiteVars
    \/ CiteMapped /\ UNCHANGED nonCiteVars
    \/ CiteThrown /\ UNCHANGED nonCiteVars

----------------------------------------------------------------------------
(* The S3 mirror: GET /api/vector-stores/:id/files/:fileId/content *)

EndsWith(s, suffix) ==
    Len(s) >= Len(suffix) /\ SubSeq(s, Len(s) - Len(suffix) + 1, Len(s)) = suffix

\* String.prototype.replaceAll for single characters; `to` may be empty.
RECURSIVE ReplaceAll(_, _, _)
ReplaceAll(s, from, to) ==
    IF s = <<>> THEN <<>>
    ELSE (IF Head(s) = from THEN to ELSE <<Head(s)>>) \o ReplaceAll(Tail(s), from, to)

\* server.ts 562-568.  "0" stands for the NUL character.
sanitizeS3KeyComponent(value) ==
    Trim(ReplaceAll(ReplaceAll(ReplaceAll(value, "\\", <<"_">>), "/", <<"_">>), "0", <<>>))

\* The bucket name is read without trimming it.
BucketNameUntrimmed(env) == env.bucket

\* (process.env['VECTOR_STORE_S3_BUCKET'] ?? '').trim()
BucketName(env) == Trim(env.bucket)

\* server.ts 514-533: null when no bucket is set; "throws" when a bucket is set
\* and no region; else the configuration with its normalised prefix.
getVectorStoreS3ConfigFromEnv(env) ==
    IF BucketName(env) = <<>> THEN [kind |-> "null", prefix |-> <<>>]
    ELSE IF Trim(env.region) = <<>> THEN [kind |-> "throws", prefix |-> <<>>]
    ELSE [kind |-> "config",
          prefix |-> IF EndsWith(Trim(env.prefix), <<"/">>) THEN Trim(env.prefix)
                     ELSE Trim(env.prefix) \o <<"/">>]

\* server.ts 570-580.
buildVectorStoreRootPrefix(config, vectorStoreId) ==
    config.prefix \o sanitizeS3KeyComponent(vectorStoreId) \o <<"/">>

buildVectorStoreFilePrefix(config, vectorStoreId, vectorStoreFileId) ==
    buildVectorStoreRootPrefix(config, vectorStoreId)
        \o <<"f", "i", "l", "e", "s", "/">>
        \o sanitizeS3KeyComponent(vectorStoreFileId) \o <<"/">>

\* The characters of the keys, in the order of their codes.
CharOrder == <<"-", "/", "1", "2", "4", "_", "a", "b", "e", "f", "i", "l", "p", "s", "v",
               "x", "y", "z">>
CodeOf(c) == CHOOSE i \in 1..Len(CharOrder) : CharOrder[i] = c

RECURSIVE KeyBefore(_, _)
KeyBefore(k1, k2) ==
    IF k1 = <<>> THEN k2 # <<>>
    ELSE IF k2 = <<>> THEN FALSE
    ELSE IF Head(k1) = Head(k2) THEN KeyBefore(Tail(k1), Tail(k2))
    ELSE CodeOf(Head(k1)) < CodeOf(Head(k2))

\* ListObjectsV2: the keys with the prefix, in key order, at most maxKeys.
RECURSIVE SortedKeys(_)
SortedKeys(keys) ==
    IF keys = {} THEN <<>>
    ELSE LET first == CHOOSE k \in keys : \A other \in keys \ {k} : KeyBefore(k, other)
         IN  <<first>> \o SortedKeys(keys \ {first})

ListObjects(objects, prefix, maxKeys) ==
    LET all == SortedKeys({ k \in objects : StartsWith(k, prefix) })
    IN  SubSeq(all, 1, IF Len(all) < maxKeys THEN Len(all) ELSE maxKeys)

\* server.ts 1149-1154: the first key that is not a directory marker, or ''.
RECURSIVE FirstObjectKey(_)
FirstObjectKey(keys) ==
    IF keys = <<>> THEN <<>>
    ELSE IF Head(keys) # <<>> /\ ~EndsWith(Head(keys), <<"/">>) THEN Head(keys)
    ELSE FirstObjectKey(Tail(keys))

findFirstObjectKey(objects, prefix) == FirstObjectKey(ListObjects(objects, prefix, 10))

NoRegionMessage ==
    <<"VECTOR_STORE_S3_BUCKET is set but no region was provided (set VECTOR_STORE_S3_REGION or AWS_REGION).">>

IdleMirTask ==
    [pc |-> "request", vectorStoreId |-> <<>>, fileIdOrVectorStoreFileId |-> <<>>,
     vectorStoreFileId |-> <<>>, primaryPrefix |-> <<>>, fallbackPrefix |-> <<>>,
     objectKey |-> <<>>, s3Calls |-> 0]

MirIdle ==
    /\ s3Env = [bucket |-> <<>>, region |-> <<>>, prefix |-> <<"p">>]
    /\ s3Objects = {}
    /\ mirReq = [id |-> <<>>, fileId |-> <<>>]
    /\ mirTask = IdleMirTask
    /\ mirRes = NoRes

MirFinish(task, response) ==
    /\ mirRes' = response
    /\ mirTask' = [task EXCEPT !.pc = "done"]

\* server.ts 1133-1157: the prefixes are built and the primary one is listed.
MirLookup(task, vectorStoreFileId) ==
    LET config == getVectorStoreS3ConfigFromEnv(s3Env)
        primaryPrefix ==
            buildVectorStoreFilePrefix(config, task.vectorStoreId, vectorStoreFileId)
        fallbackPrefix ==
            IF vectorStoreFileId = task.fileIdOrVectorStoreFileId THEN <<>>
            ELSE buildVectorStoreFilePrefix(config, task.vectorStoreId,
                                            task.fileIdOrVectorStoreFileId)
    IN  /\ mirTask' = [task EXCEPT !.pc = "listPrimary",
                                   !.vectorStoreFileId = vectorStoreFileId,
                                   !.primaryPrefix = primaryPrefix,
                                   !.fallbackPrefix = fallbackPrefix,
                                   !.s3Calls = @ + 1]
        /\ UNCHANGED mirRes

\* server.ts 1101-1131: the configuration and the parameters are checked; an
\* id of file-id form is resolved through the membership index.
MirReceive ==
    /\ mirTask.pc = "request"
    /\ LET config == getVectorStoreS3ConfigFromEnv(s3Env)
           vectorStoreId == Trim(mirReq.id)
           fileIdOrVectorStoreFileId == Trim(mirReq.fileId)
           task == [mirTask EXCEPT !.vectorStoreId = vectorStoreId,
                                   !.fileIdOrVectorStoreFileId = fileIdOrVectorStoreFileId]
       IN  IF config.kind = "throws"
           THEN /\ MirFinish(mirTask, Respond(500, ErrorBody(NoRegionMessage)))
                /\ UNCHANGED <<idxTask, vectorStoreFileIdCache, now>>
           ELSE IF config.kind = "null"
           THEN /\ MirFinish(mirTask,
                             Respond(500, ErrorBody(<<"S3 mirroring is not configured">>)))
                /\ UNCHANGED <<idxTask, vectorStoreFileIdCache, now>>
           ELSE IF vectorStoreId = <<>> \/ fileIdOrVectorStoreFileId = <<>>
           THEN /\ MirFinish(mirTask, Respond(400, ErrorBody(
                    <<"Missing vectorStoreId or vectorStoreFileId">>)))
                /\ UNCHANGED <<idxTask, vectorStoreFileIdCache, now>>
           ELSE IF ~StartsWith(fileIdOrVectorStoreFileId, FilePrefix)
           THEN /\ MirLookup(task, fileIdOrVectorStoreFileId)
                /\ UNCHANGED <<idxTask, vectorStoreFileIdCache, now>>
           ELSE IF ~apiKey
           THEN /\ MirFinish(mirTask,
                             Respond(500, ErrorBody(<<"OpenAI API key not configured">>)))
                /\ UNCHANGED <<idxTask, vectorStoreFileIdCache, now>>
           ELSE /\ IdxCall(vectorStoreId, {fileIdOrVectorStoreFileId})
                /\ mirTask' = [task EXCEPT !.pc = "resolve"]
                /\ UNCHANGED mirRes
    /\ UNCHANGED <<s3Env, s3Objects, mirReq>>

\* A page of the membership listing arrives (or fails) for the endpoint.
MirIdxPage ==
    /\ mirTask.pc = "resolve"
    /\ IdxPage
    /\ UNCHANGED mirVars

MirIdxPageFailed ==
    /\ mirTask.pc = "resolve"
    /\ IdxPageFailed
    /\ UNCHANGED mirVars

\* server.ts 1126-1131: the index has answered; the id it gives, if any, is used.
MirResolved ==
    /\ mirTask.pc = "resolve"
    /\ idxTask.pc = "returned"
    /\ LET map == idxTask.result
           given == mirTask.fileIdOrVectorStoreFileId
           resolved == IF MapHas(map, given) THEN map[given] ELSE <<>>
       IN  MirLookup(mirTask, IF resolved # <<>> THEN resolved ELSE given)
    /\ idxTask' = IdleIdxTask
    /\ UNCHANGED <<s3Env, s3Objects, mirReq, vectorStoreFileIdCache, now>>

\* The listing failed: the catch answers 500 (server.ts 1207-1212).
MirResolveThrown ==
    /\ mirTask.pc = "resolve"
    /\ idxTask.pc = "thrown"
    /\ MirFinish(mirTask, Respond(500, ErrorBody(
            <<"Failed to list vector store files for mapping: ">>)))
    /\ idxTask' = IdleIdxTask
    /\ UNCHANGED <<s3Env, s3Objects, mirReq, vectorStoreFileIdCache, now>>

\* server.ts 1174-1206: the object is requested.
MirGetObject(task, objectKey) ==
    /\ mirTask' = [task EXCEPT !.pc = "getObject", !.objectKey = objectKey,
                               !.s3Calls = @ + 1]
    /\ UNCHANGED mirRes

\* server.ts 1157-1165: the listing of the primary prefix answers.
MirPrimaryListed ==
    /\ mirTask.pc = "listPrimary"
    /\ LET objectKey == findFirstObjectKey(s3Objects, mirTask.primaryPrefix)
       IN  IF objectKey # <<>>
           THEN MirGetObject(mirTask, objectKey)
           ELSE IF mirTask.fallbackPrefix # <<>>
           THEN /\ mirTask' = [mirTask EXCEPT !.pc = "listFallback", !.s3Calls = @ + 1]
                /\ UNCHANGED mirRes
           ELSE MirFinish(mirTask, Respond(404, ErrorBody(
                    <<"Source not found in S3 mirror for this vector store file">>)))
    /\ UNCHANGED <<s3Env, s3Objects, mirReq, idxTask, vectorStoreFileIdCache, now>>

\* server.ts 1158-1165: the listing of the fallback prefix answers.
MirFallbackListed ==
    /\ mirTask.pc = "listFallback"
    /\ LET objectKey == findFirstObjectKey(s3Objects, mirTask.fallbackPrefix)
       IN  IF objectKey # <<>>
           THEN MirGetObject(mirTask, objectKey)
           ELSE MirFinish(mirTask, Respond(404, ErrorBody(
                    <<"Source not found in S3 mirror for this vector store file">>)))
    /\ UNCHANGED <<s3Env, s3Objects, mirReq, idxTask, vectorStoreFileIdCache, now>>

\* server.ts 1176-1206: the object arrives and is streamed, as a whole (200) or
\* as the range S3 answered with (206); an answer without a body is a 500.
MirObjectReceived ==
    /\ mirTask.pc = "getObject"
    /\ \/ \E code \in {200, 206} : MirFinish(mirTask, Respond(code, <<"bytes">>))
       \/ MirFinish(mirTask, Respond(500, ErrorBody(<<"S3 content missing">>)))
    /\ UNCHANGED <<s3Env, s3Objects, mirReq, idxTask, vectorStoreFileIdCache, now>>

\* An S3 call fails: the catch answers 500 (server.ts 1207-1212).
MirS3Failed ==
    /\ mirTask.pc \in {"listPrimary", "listFallback", "getObject"}
    /\ MirFinish(mirTask, Respond(500, ErrorBody(<<"S3 error">>)))
    /\ UNCHANGED <<s3Env, s3Objects, mirReq, idxTask, vectorStoreFileIdCache, now>>

MirrorNext ==
    \/ MirReceive /\ UNCHANGED nonMirVars
    \/ MirIdxPage /\ UNCHANGED nonMirVars
    \/ MirIdxPageFailed /\ UNCHANGED nonMirVars
    \/ MirResolved /\ UNCHANGED nonMirVars
    \/ MirResolveThrown /\ UNCHANGED nonMirVars
    \/ MirPrimaryListed /\ UNCHANGED nonMirVars
    \/ MirFallbackListed /\ UNCHANGED nonMirVars
    \/ MirObjectReceived /\ UNCHANGED nonMirVars
    \/ MirS3Failed /\ UNCHANGED nonMirVars

----------------------------------------------------------------------------
(* POST /api/vector-stores/:id/files: upload, attach and mirror *)

\* The files of a request: originalname and size.
UploadFile(name, size) == [originalname |-> name, size |-> size]
UploadFiles == { UploadFile(<<"x">>, 1), UploadFile(<<"/", "y">>, 2), UploadFile(<<" ">>, 3) }
UploadRequests == UNION { [1..n -> UploadFiles] : n \in {0, 1, 2} }

\* The ids the upstream gives the files it creates, in order, and the id it
\* gives the membership of a file: its own form or the file's id.
FreshFileIds == <<FileId("1"), FileId("4")>>
MembershipIdsOf(fileId) == { MembershipId(fileId[Len(fileId)]), fileId }

NoConfig == [kind |-> "null", prefix |-> <<>>]

IdleUpTask ==
    [pc |-> "idle", v |-> <<>>, files |-> <<>>, i |-> 0, config |-> NoConfig,
     uploadedFileId |-> <<>>, membershipId |-> <<>>, status |-> 0]

IdleDelTask ==
    [pc |-> "idle", kind |-> "", v |-> <<>>, m |-> <<>>, prefix |-> <<>>, token |-> <<>>,
     keys |-> <<>>, truncated |-> FALSE, next |-> <<>>, pages |-> 0, returned |-> FALSE,
     status |-> 0]

\* The files created upstream, the memberships created, the keys put by the
\* upload request, and the keys put while deleteAllObjectsUnderPrefix ran.
EmptyStoreLog == [uploaded |-> {}, attached |-> {}, written |-> {}, duringDelete |-> {}]

StoreIdle ==
    /\ upTask = IdleUpTask
    /\ delTask = IdleDelTask
    /\ storeLog = EmptyStoreLog

\* The handler sends its response and returns.
UpFinish(task, code) == upTask' = [task EXCEPT !.pc = "done", !.status = code]

\* PutObjectCommand: the object is in the bucket.
PutObject(key) ==
    /\ s3Objects' = s3Objects \cup {key}
    /\ storeLog' = [storeLog EXCEPT
            !.written = @ \cup {key},
            !.duringDelete = IF delTask.pc \in {"list", "delete"} THEN @ \cup {key} ELSE @]

\* server.ts 1445-1462: the checks of the request and of the configuration.
UpReceive(v, files) ==
    /\ upTask.pc = "idle"
    /\ LET config == getVectorStoreS3ConfigFromEnv(s3Env)
           task == [upTask EXCEPT !.v = v, !.files = files, !.config = config, !.i = 1]
       IN  IF ~apiKey THEN UpFinish(upTask, 500)
           ELSE IF files = <<>> THEN UpFinish(upTask, 400)
           ELSE IF config.kind = "throws" THEN UpFinish(upTask, 500)
           ELSE IF config.kind = "config" THEN upTask' = [task EXCEPT !.pc = "folder"]
           ELSE upTask' = [task EXCEPT !.pc = "upload"]
    /\ UNCHANGED <<fileMetaCache, listing, s3Objects, delTask, storeLog>>

\* server.ts 582-593 and 1460-1462: ensureVectorStoreFolderExists puts the
\* directory marker of the vector store.
UpFolderPut ==
    /\ upTask.pc = "folder"
    /\ PutObject(buildVectorStoreRootPrefix(upTask.config, upTask.v))
    /\ upTask' = [upTask EXCEPT !.pc = "upload"]
    /\ UNCHANGED <<fileMetaCache, listing, delTask>>

\* An S3 call throws: the catch answers 500 (server.ts 1540-1545).
UpS3Failed ==
    /\ upTask.pc \in {"folder", "put"}
    /\ UpFinish(upTask, 500)
    /\ UNCHANGED <<fileMetaCache, listing, s3Objects, delTask, storeLog>>

\* The uploaded file is not entered into the cache.
MetaNotCached(cache, fileId, file) == cache

\* server.ts 1489: fileMetaCache.set(uploadedFileId, { filename, bytes })
MetaAfterUpload(cache, fileId, file) ==
    [cache EXCEPT ![fileId] = FileMeta(file.originalname, file.size)]

\* server.ts 1464-1489: POST /v1/files succeeded.
UpUploaded ==
    /\ upTask.pc = "upload"
    /\ Cardinality(storeLog.uploaded) < Len(FreshFileIds)
    /\ LET file == upTask.files[upTask.i]
           uploadedFileId == FreshFileIds[Cardinality(storeLog.uploaded) + 1]
       IN  /\ fileMetaCache' = MetaAfterUpload(fileMetaCache, uploadedFileId, file)
           /\ storeLog' = [storeLog EXCEPT !.uploaded = @ \cup
                    {[fileId |-> uploadedFileId, originalname |-> file.originalname,
                      size |-> file.size]}]
           /\ upTask' = [upTask EXCEPT !.pc = "attach", !.uploadedFileId = uploadedFileId]
    /\ UNCHANGED <<listing, s3Objects, delTask>>

\* server.ts 1532-1539: results.push; the next file, or res.json.
UpNextFile(task) ==
    IF task.i < Len(task.files)
    THEN upTask' = [task EXCEPT !.pc = "upload", !.i = @ + 1]
    ELSE UpFinish(task, 200)

\* The file is left out and the loop goes on.
UpSkipFile(task, code) == UpNextFile(task)

\* server.ts 1480-1484 and 1503-1507: return res.status(...).json(...)
UpFailed(task, code) == UpFinish(task, code)

\* server.ts 1481-1485 and 1503-1507: the upload or the attach call answered
\* non-success; its status is passed on.
UpCallFailed ==
    /\ upTask.pc \in {"upload", "attach"}
    /\ \E f \in UpstreamFailures : UpFailed(upTask, f.status)
    /\ UNCHANGED <<fileMetaCache, listing, s3Objects, delTask, storeLog>>

\* server.ts 1491-1511: the attach call succeeded; the upstream has the
\* membership.
UpAttached ==
    /\ upTask.pc = "attach"
    /\ \E m \in MembershipIdsOf(upTask.uploadedFileId) :
        LET task == [upTask EXCEPT !.membershipId = m]
        IN  /\ listing' = [listing EXCEPT ![upTask.v] =
                    Append(@, [id |-> m, file_id |-> upTask.uploadedFileId])]
            /\ storeLog' = [storeLog EXCEPT !.attached = @ \cup
                    {[v |-> upTask.v, i |-> upTask.i, fileId |-> upTask.uploadedFileId,
                      m |-> m]}]
            /\ IF upTask.config.kind = "config"
               THEN upTask' = [task EXCEPT !.pc = "put"]
               ELSE UpNextFile(task)
    /\ UNCHANGED <<fileMetaCache, s3Objects, delTask>>

\* The object is keyed by the file's name alone.
ObjectKeyByName(config, v, m, originalname) ==
    buildVectorStoreRootPrefix(config, v) \o originalname

\* server.ts 1511-1513: sanitizeS3KeyComponent(file.originalname) || 'file'
\* appended to the prefix of the membership.
ObjectKey(config, v, m, originalname) ==
    buildVectorStoreFilePrefix(config, v, m)
        \o (IF sanitizeS3KeyComponent(originalname) # <<>>
            THEN sanitizeS3KeyComponent(originalname)
            ELSE <<"f", "i", "l", "e">>)

\* server.ts 1515-1530: the PutObjectCommand succeeded.
UpPut ==
    /\ upTask.pc = "put"
    /\ PutObject(ObjectKey(upTask.config, upTask.v, upTask.membershipId,
                           upTask.files[upTask.i].originalname))
    /\ UpNextFile(upTask)
    /\ UNCHANGED <<fileMetaCache, listing, delTask>>

----------------------------------------------------------------------------
(* DELETE /api/vector-stores/:id and /api/vector-stores/:id/files/:fileId *)

\* ListObjectsV2Command: the keys with the prefix after the continuation token,
\* in key order, at most maxKeys; IsTruncated and NextContinuationToken.
ListObjectsV2(objects, prefix, token, maxKeys) ==
    LET all == SortedKeys({ k \in objects :
                    StartsWith(k, prefix) /\ (token = <<>> \/ KeyBefore(token, k)) })
        n == IF Len(all) < maxKeys THEN Len(all) ELSE maxKeys
    IN  [keys |-> SubSeq(all, 1, n),
         truncated |-> Len(all) > n,
         next |-> IF Len(all) > n /\ n > 0 THEN all[n] ELSE <<>>]

DelFinish(task, code) == delTask' = [task EXCEPT !.pc = "done", !.status = code]

\* The memberships the upstream keeps when the membership m is deleted.
RECURSIVE WithoutMembership(_, _)
WithoutMembership(items, m) ==
    IF items = <<>> THEN <<>>
    ELSE IF Head(items).id = m THEN WithoutMembership(Tail(items), m)
    ELSE <<Head(items)>> \o WithoutMembership(Tail(items), m)

\* server.ts 1352-1367 and 1549-1564: the upstream DELETE is issued.
DelReceive(kind, v, m) ==
    /\ delTask.pc = "idle"
    /\ IF ~apiKey THEN DelFinish(delTask, 500)
       ELSE delTask' = [delTask EXCEPT !.pc = "upstream", !.kind = kind, !.v = v, !.m = m]
    /\ UNCHANGED <<fileMetaCache, listing, s3Objects, upTask, storeLog>>

\* server.ts 1369-1373 and 1566-1570: the upstream answered non-success.
DelUpstreamFailed ==
    /\ delTask.pc = "upstream"
    /\ \E f \in UpstreamFailures : DelFinish(delTask, f.status)
    /\ UNCHANGED <<fileMetaCache, listing, s3Objects, upTask, storeLog>>

\* server.ts 1375-1380 and 1572-1577: the upstream deleted the vector store
\* or the membership; with a mirror configured its prefix is emptied.
DelUpstreamDone ==
    /\ delTask.pc = "upstream"
    /\ listing' = [listing EXCEPT ![delTask.v] =
            IF delTask.kind = "store" THEN <<>> ELSE WithoutMembership(@, delTask.m)]
    /\ LET config == getVectorStoreS3ConfigFromEnv(s3Env)
           prefix == IF delTask.kind = "store"
                     THEN buildVectorStoreRootPrefix(config, delTask.v)
                     ELSE buildVectorStoreFilePrefix(config, delTask.v, delTask.m)
       IN  IF config.kind = "throws" THEN DelFinish(delTask, 500)
           ELSE IF config.kind = "null" THEN DelFinish(delTask, 200)
           ELSE delTask' = [delTask EXCEPT !.pc = "list", !.prefix = prefix, !.pages = 1]
    /\ UNCHANGED <<fileMetaCache, s3Objects, upTask, storeLog>>

\* The loop ends after the first page.
ExhaustedAfterOnePage(truncated, next) == TRUE

\* server.ts 643-649: if (!list.IsTruncated) return; if (!continuationToken) return;
ListingExhausted(truncated, next) == ~truncated \/ next = <<>>

\* server.ts 643-649: deleteAllObjectsUnderPrefix returns and the handler
\* answers, or the next page is listed.
DelGoOn(task) ==
    IF ListingExhausted(task.truncated, task.next)
    THEN DelFinish([task EXCEPT !.returned = TRUE], 200)
    ELSE delTask' = [task EXCEPT !.pc = "list", !.token = task.next, !.pages = @ + 1]

\* server.ts 616-630: a page of the listing arrives.
DelListed ==
    /\ delTask.pc = "list"
    /\ LET list == ListObjectsV2(s3Objects, delTask.prefix, delTask.token, DeletePageSize)
           task == [delTask EXCEPT !.keys = list.keys, !.truncated = list.truncated,
                                   !.next = list.next]
       IN  IF list.keys # <<>>
           THEN delTask' = [task EXCEPT !.pc = "delete"]
           ELSE DelGoOn(task)
    /\ UNCHANGED <<fileMetaCache, listing, s3Objects, upTask, storeLog>>

\* server.ts 632-642: the DeleteObjectsCommand succeeded.
DelDeleted ==
    /\ delTask.pc = "delete"
    /\ s3Objects' = s3Objects \ { delTask.keys[i] : i \in 1..Len(delTask.keys) }
    /\ DelGoOn(delTask)
    /\ UNCHANGED <<fileMetaCache, listing, upTask, storeLog>>

\* An S3 call throws: the catch answers 500.
DelS3Failed ==
    /\ delTask.pc \in {"list", "delete"}
    /\ DelFinish(delTask, 500)
    /\ UNCHANGED <<fileMetaCache, listing, s3Objects, upTask, storeLog>>

\* The memberships a delete request can name.
DeletableMemberships == {MembershipId("1"), FileId("1"), FileId("2")}

\* The files the upstream has: those uploaded here and one created elsewhere.
StoreFileIds == {FileId("1"), FileId("2"), FileId("4")}
ExistsUpstream(f) == f = FileId("2") \/ \E u \in storeLog.uploaded : u.fileId = f

\* The steps of the upload handler after the request was received.
UploadSteps ==
    \/ UpFolderPut /\ UNCHANGED nonStoreVars
    \/ UpS3Failed /\ UNCHANGED nonStoreVars
    \/ UpUploaded /\ UNCHANGED nonStoreVars
    \/ UpCallFailed /\ UNCHANGED nonStoreVars
    \/ UpAttached /\ UNCHANGED nonStoreVars
    \/ UpPut /\ UNCHANGED nonStoreVars

UploadNext ==
    \/ \E files \in UploadRequests : UpReceive(<<"a">>, files) /\ UNCHANGED nonStoreVars
    \/ UploadSteps

\* A fetch of the mirrored source of a membership.
FetchNext ==
    \/ MirReceive /\ UNCHANGED nonMirVars
    \/ MirPrimaryListed /\ UNCHANGED nonMirVars
    \/ MirObjectReceived /\ UNCHANGED nonMirVars
    \/ MirS3Failed /\ UNCHANGED nonMirVars

DeleteNext ==
    \/ DelReceive("store", <<"a">>, <<>>) /\ UNCHANGED nonStoreVars
    \/ \E m \in DeletableMemberships : DelReceive("file", <<"a">>, m) /\ UNCHANGED nonStoreVars
    \/ DelUpstreamFailed /\ UNCHANGED nonStoreVars
    \/ DelUpstreamDone /\ UNCHANGED nonStoreVars
    \/ DelListed /\ UNCHANGED nonStoreVars
    \/ DelDeleted /\ UNCHANGED nonStoreVars
    \/ DelS3Failed /\ UNCHANGED nonStoreVars

\* The caller that asks for the metadata of files while they are uploaded.
Lookers == {1}

\* getFileMeta is called for files the upstream has.
LookupNext ==
    \/ \E c \in Lookers, f \in StoreFileIds :
          ExistsUpstream(f) /\ MetaCall(c, f) /\ UNCHANGED nonMetaVars
    \/ \E c \in Callers : MetaFetched(c) /\ UNCHANGED nonMetaVars
    \/ \E c \in Callers : MetaFailed(c) /\ UNCHANGED nonMetaVars
    \/ \E c \in Callers : MetaDone(c) /\ UNCHANGED nonMetaVars

----------------------------------------------------------------------------
(* Two POST /api/assistants/chat requests that name the same thread *)

Turns == {1, 2}
TurnMark(t) == IF t = 0 THEN "0" ELSE IF t = 1 THEN "1" ELSE "2"

\* The message a request appends and the message its run produces; the
\* exchange of an earlier turn of the conversation.
UserMessage(t) == Message("user", <<TextItem(<<"q", TurnMark(t)>>, FALSE)>>)
AssistantMessage(t) == Message("assistant", <<TextItem(<<"r", TurnMark(t)>>, FALSE)>>)
EarlierExchange == <<UserMessage(0), AssistantMessage(0)>>

\* /messages?order=desc&limit=20
MessagesLimit == 20

IdleTurnTask == [pc |-> "idle", userAt |-> 0, ran |-> FALSE, status |-> 0, reply |-> <<>>]

ShareIdle ==
    /\ dialogue = <<>>
    /\ activeRun = 0
    /\ turnTask = [t \in Turns |-> IdleTurnTask]

\* The newest messages of the thread, newest first, at most limit of them.
RECURSIVE NewestFirst(_, _)
NewestFirst(messages, limit) ==
    IF messages = <<>> \/ limit = 0 THEN <<>>
    ELSE <<messages[Len(messages)]>>
            \o NewestFirst(SubSeq(messages, 1, Len(messages) - 1), limit - 1)

\* server.ts 941-972: the request passes the checks, the assistant is in the
\* registry and the request's thread id is adopted.
ShReceive(t) ==
    /\ turnTask[t].pc = "idle"
    /\ turnTask' = [turnTask EXCEPT ![t].pc = "addMessage"]
    /\ UNCHANGED <<dialogue, activeRun>>

\* server.ts 986-1003: the thread took the user's message.
ShMessageAdded(t) ==
    /\ turnTask[t].pc = "addMessage"
    /\ activeRun = 0
    /\ dialogue' = Append(dialogue, UserMessage(t))
    /\ turnTask' = [turnTask EXCEPT ![t].pc = "createRun", ![t].userAt = Len(dialogue) + 1]
    /\ UNCHANGED activeRun

\* server.ts 999-1003 and 1017-1021: the upstream refuses a message or a run
\* on a thread that has an active run; the status is passed on.
ShRefused(t) ==
    /\ turnTask[t].pc \in {"addMessage", "createRun"}
    /\ activeRun # 0
    /\ turnTask' = [turnTask EXCEPT ![t].pc = "done", ![t].status = 400]
    /\ UNCHANGED <<dialogue, activeRun>>

\* server.ts 1005-1027: the run is created.
ShRunCreated(t) ==
    /\ turnTask[t].pc = "createRun"
    /\ activeRun = 0
    /\ activeRun' = t
    /\ turnTask' = [turnTask EXCEPT ![t].pc = "status"]
    /\ UNCHANGED dialogue

\* The upstream completes the active run, with or without an assistant
\* message.
RunCompleted(produces) ==
    /\ activeRun # 0
    /\ dialogue' = IF produces THEN Append(dialogue, AssistantMessage(activeRun))
                   ELSE dialogue
    /\ turnTask' = [turnTask EXCEPT ![activeRun].ran = TRUE]
    /\ activeRun' = 0

\* server.ts 1029-1049: a status call answers "completed"; the messages are
\* requested.
ShStatusCompleted(t) ==
    /\ turnTask[t].pc = "status"
    /\ turnTask[t].ran
    /\ turnTask' = [turnTask EXCEPT ![t].pc = "messages"]
    /\ UNCHANGED <<dialogue, activeRun>>

\* server.ts 1063-1091: the newest messages arrive; the first assistant
\* message among them is the reply.
ShMessagesReceived(t) ==
    /\ turnTask[t].pc = "messages"
    /\ LET data == NewestFirst(dialogue, MessagesLimit)
           assistantMessage == FindAssistant(data)
           text == extractAssistantText(assistantMessage)
       IN  turnTask' = [turnTask EXCEPT
                ![t].pc = "done",
                ![t].status = IF text = <<>> THEN 500 ELSE 200,
                ![t].reply = text]
    /\ UNCHANGED <<dialogue, activeRun>>

ShareNext ==
    \/ \E t \in Turns : ShReceive(t) /\ UNCHANGED nonShareVars
    \/ \E t \in Turns : ShMessageAdded(t) /\ UNCHANGED nonShareVars
    \/ \E t \in Turns : ShRefused(t) /\ UNCHANGED nonShareVars
    \/ \E t \in Turns : ShRunCreated(t) /\ UNCHANGED nonShareVars
    \/ \E produces \in BOOLEAN : RunCompleted(produces) /\ UNCHANGED nonShareVars
    \/ \E t \in Turns : ShStatusCompleted(t) /\ UNCHANGED nonShareVars
    \/ \E t \in Turns : ShMessagesReceived(t) /\ UNCHANGED nonShareVars

----------------------------------------------------------------------------
(* The client: ChatService.sendMessage and ChatComponent (chat.service.ts) *)

NoClientThread == ""

ConvIdle ==
    /\ selectedVectorStoreId = <<"a">>
    /\ clientThreadId = NoClientThread
    /\ context = <<>>
    /\ convPc = "idle"
    /\ sends = 0
    /\ lastTurnFailed = FALSE

\* The message the user types for the next turn of the conversation shown; a
\* turn that failed is typed again.
Digits == <<"1", "2", "3", "4", "5">>
TurnPrompt(answered) == <<"q", Digits[Len(answered) + 1]>>

\* The runs of the requests the client sends.
ClientRunPlans ==
    { p \in RunPlans : /\ p.ends
                       /\ p.n \in {0, 2}
                       /\ p.pending = "in_progress"
                       /\ p.final \in {"completed", "failed"} }

\* chat.service.ts 83-94: POST /api/assistants/chat with the prompt, the
\* selected vector store and this.threadId; the handler starts on the request.
ClientSend ==
    /\ convPc = "idle"
    /\ sends < MaxSends
    /\ sends' = sends + 1
    /\ convPc' = "waiting"
    /\ body' = [prompt |-> Str(TurnPrompt(context)),
                vectorStoreId |-> Str(selectedVectorStoreId),
                threadId |-> IF clientThreadId = NoClientThread THEN Undefined
                             ELSE Str(clientThreadId)]
    /\ runPlan' \in ClientRunPlans
    /\ UNCHANGED <<apiKey, assistantIdByVectorStoreId, pc, assistantId, threadId, runId,
                   start, now, polls, status, messagesData, reply, res, threads, calls,
                   lastFail, selectedVectorStoreId, clientThreadId, context, lastTurnFailed>>

\* The thread id is dropped when a turn fails.
ForgetThread(t) == NoClientThread

\* chat.service.ts 115-151: the catch rethrows; this.threadId is not assigned.
ThreadIdAfterError(t) == t

\* chat.service.ts 98 and 115 and chat.component.ts 184-186: the response
\* arrived; the handler has returned and its request is gone. The clock is
\* read from the moment the next request is sent.
ClientReceive ==
    /\ convPc = "waiting"
    /\ pc = "done"
    /\ convPc' = "idle"
    /\ body' = [prompt |-> Undefined, vectorStoreId |-> Undefined, threadId |-> Undefined]
    /\ pc' = "request"
    /\ assistantId' = NoId
    /\ threadId' = NoId
    /\ runId' = NoId
    /\ start' = 0
    /\ polls' = 0
    /\ status' = ""
    /\ messagesData' = <<>>
    /\ reply' = <<>>
    /\ res' = NoRes
    /\ calls' = [e \in Endpoints |-> 0]
    /\ lastFail' = NoFail
    /\ IF res.status = 200
       THEN /\ clientThreadId' = res.threadId
            /\ context' = Append(context, [prompt |-> TrimmedString(body.prompt),
                                            thread |-> res.threadId])
            /\ lastTurnFailed' = FALSE
       ELSE /\ clientThreadId' = ThreadIdAfterError(clientThreadId)
            /\ lastTurnFailed' = TRUE
            /\ UNCHANGED context
    /\ runPlan' = [ends |-> TRUE, n |-> 0, pending |-> "queued", final |-> "completed",
                    lastError |-> ""]
    /\ now' = 0
    /\ UNCHANGED <<apiKey, assistantIdByVectorStoreId, threads, selectedVectorStoreId, sends>>

\* chat.component.ts 151-155 and chat.service.ts 55-58: another vector store is
\* selected between two turns; the thread id is dropped and the conversation
\* shown is cleared.
SetVectorStore(v) ==
    /\ convPc = "idle"
    /\ v # selectedVectorStoreId
    /\ selectedVectorStoreId' = v
    /\ clientThreadId' = NoClientThread
    /\ context' = <<>>
    /\ UNCHANGED <<apiKey, assistantIdByVectorStoreId, chatVars, convPc, sends, lastTurnFailed>>

\* The handler works on the request the client is waiting for.
ServeClient ==
    /\ convPc = "waiting"
    /\ \/ Receive
       \/ AssistantCreated
       \/ AssistantFailed
       \/ CallFailed
       \/ ThreadCreated
       \/ MessageAdded
       \/ RunCreated
       \/ StatusReceived
       \/ SleepDone
       \/ MessagesReceived
       \/ CitationsResolved
       \/ CitationsFailed
    /\ UNCHANGED convVars

ConversationNext ==
    \/ ClientSend /\ UNCHANGED nonConvVars
    \/ ServeClient /\ UNCHANGED nonConvVars
    \/ ClientReceive /\ UNCHANGED nonConvVars
    \/ \E v \in VectorStoreIds : SetVectorStore(v) /\ UNCHANGED nonConvVars

----------------------------------------------------------------------------
(* ChatComponent (chat.component.ts) over ChatService, with a backend that  *)
(* answers each request in one step                                         *)

\* Calls of ChatComponent.sendMessage in one behaviour.
MaxClicks == 4

\* The thread the backend creates for the n-th request when it names none.
FreshThreadIds == <<"th_1", "th_2", "th_3", "th_4", "th_5", "th_6">>

\* What the user has typed when sendMessage is called.
InputMessages == {<<" ">>, <<"q", " ">>}

\* '' in the selector: no vector store (ChatService.selectedVectorStoreId null).
NoVectorStore == <<>>

ViewIdle ==
    /\ isLoading = FALSE
    /\ viewMessages = <<>>
    /\ viewError = ""
    /\ outstanding = {}
    /\ returnedFor = {}
    /\ clicks = 0

SendIgnoredWhenEmpty(message) == message = <<>>

\* chat.component.ts 158-161: if (!message || this.isLoading()) return

SendIgnored(message) == message = <<>> \/ isLoading

\* chat.service.ts 84-96: the body of the POST; with no vector store selected
\* the request goes to /api/chat and carries no thread id.
PostRequest(n, prompt) ==
    [id |-> n,
     prompt |-> prompt,
     vectorStoreId |-> selectedVectorStoreId,
     threadId |-> IF selectedVectorStoreId = NoVectorStore THEN NoClientThread
                  ELSE clientThreadId]

\* chat.component.ts 157-175 and chat.service.ts 75-96: sendMessage up to the
\* await of the POST.
ViewSendMessage(input) ==
    /\ clicks < MaxClicks
    /\ clicks' = clicks + 1
    /\ LET message == Trim(input)
       IN  IF SendIgnored(message)
           THEN UNCHANGED <<isLoading, viewMessages, viewError, outstanding>>
           ELSE /\ viewMessages' = Append(viewMessages, [role |-> "user", of |-> clicks + 1])
                /\ viewError' = ""
                /\ isLoading' = TRUE
                /\ outstanding' = outstanding \cup {PostRequest(clicks + 1, message)}
    /\ UNCHANGED <<selectedVectorStoreId, clientThreadId, returnedFor>>

\* The thread id of the response: the one the request named, else a new one.
ResponseThreadId(r) ==
    IF r.threadId = NoClientThread THEN FreshThreadIds[r.id] ELSE r.threadId

\* chat.service.ts 98-99 and chat.component.ts 177-191: the response of a
\* request arrives with success: this.threadId = response.threadId, and the
\* assistant message is appended.
ViewResponse(r) ==
    /\ r \in outstanding
    /\ outstanding' = outstanding \ {r}
    /\ IF r.vectorStoreId = NoVectorStore
       THEN UNCHANGED <<clientThreadId, returnedFor>>
       ELSE /\ clientThreadId' = ResponseThreadId(r)
            /\ returnedFor' = returnedFor \cup {<<ResponseThreadId(r), r.vectorStoreId>>}
    /\ viewMessages' = Append(viewMessages, [role |-> "assistant", of |-> r.id])
    /\ isLoading' = FALSE
    /\ UNCHANGED <<selectedVectorStoreId, viewError, clicks>>

\* chat.component.ts 185-191: finally { this.isLoading.set(false) }
LoadingAfterError == FALSE

LoadingKeptAfterError == TRUE

\* chat.service.ts 115-151 and chat.component.ts 185-191: the request fails;
\* the service rethrows, the component shows the error.
ViewRequestFailed(r) ==
    /\ r \in outstanding
    /\ outstanding' = outstanding \ {r}
    /\ viewError' = "Failed to send message"
    /\ isLoading' = LoadingAfterError
    /\ UNCHANGED <<selectedVectorStoreId, clientThreadId, viewMessages, returnedFor, clicks>>

\* chat.component.ts 219-222
clearChat ==
    /\ viewMessages' = <<>>
    /\ viewError' = ""

\* chat.component.ts 151-155 and chat.service.ts 55-58: the selector changes,
\* whether or not a request is outstanding.
onVectorStoreChange(value) ==
    /\ value # selectedVectorStoreId
    /\ selectedVectorStoreId' = value
    /\ clientThreadId' = NoClientThread
    /\ clearChat
    /\ UNCHANGED <<isLoading, outstanding, returnedFor, clicks>>

ViewNext ==
    \/ \E input \in InputMessages : ViewSendMessage(input) /\ UNCHANGED nonViewVars
    \/ \E r \in outstanding : ViewResponse(r) /\ UNCHANGED nonViewVars
    \/ \E r \in outstanding : ViewRequestFailed(r) /\ UNCHANGED nonViewVars
    \/ \E value \in VectorStoreIds \cup {NoVectorStore} :
          onVectorStoreChange(value) /\ UNCHANGED nonViewVars

----------------------------------------------------------------------------
(* VectorStoresComponent (vector-stores.component.ts): the poller *)

\* The vector stores listed.
StoreIds == {"vs_1", "vs_2"}

\* The most files a store has in progress upstream.
MaxInProgress == 1

\* The most interval timers the window holds.
MaxTimers == 2

\* Stores selected, uploads started and deletes asked for in one behaviour.
MaxUserOps == 3

\* selectedStore() is null.
NoStore == [id |-> "", in_progress |-> 0]

PollIdle ==
    /\ selectedStore = NoStore
    /\ storeFiles = 0
    /\ pollIntervalId = 0
    /\ pollInFlight = FALSE
    /\ isPolling = FALSE
    /\ timers = {}
    /\ destroyed = FALSE
    /\ pollTask = {}
    /\ callbacks = {}
    /\ indexing = [s \in StoreIds |-> [exists |-> TRUE, in_progress |-> 0]]
    /\ userOps = 0

Continuation(kind, store) == [kind |-> kind, store |-> store]

\* isUploadingFile is true from the start of an upload to its finally.
isUploadingFile == \E c \in callbacks : c.kind = "upload"

\* lines 207-215: hasInProgressFiles() || (store?.file_counts?.in_progress ?? 0) > 0
hasInProgressWork(store, files) == files > 0 \/ store.in_progress > 0

\* lines 242-248
stopPolling ==
    /\ pollIntervalId' = 0
    /\ timers' = timers \ {pollIntervalId}
    /\ isPolling' = FALSE

\* The id setInterval returns: one no registered timer has.
NewTimer == CHOOSE t \in 1..(MaxTimers + 1) : t \notin timers

NewPoll == CHOOSE n \in 1..(Cardinality(pollTask) + 1) : \A t \in pollTask : t.id # n

PollSkippedWithoutStore(store) == store.id = ""

\* line 252: if (!store || this.pollInFlight) return
PollSkipped(store) == store.id = "" \/ pollInFlight

\* lines 250-258: pollOnce up to its first await.
pollOnce(store) ==
    IF PollSkipped(store)
    THEN UNCHANGED <<pollInFlight, pollTask>>
    ELSE /\ pollInFlight' = TRUE
         /\ pollTask' = pollTask \cup {[id |-> NewPoll, pc |-> "files", store |-> store.id]}

NeverPolling == FALSE

\* line 233: if (this.pollIntervalId) return
AlreadyPolling == pollIntervalId # 0

\* lines 217-240, with the selected store and the files shown when it is called.
startPollingIfNeeded(store, files) ==
    IF store.id = "" \/ ~hasInProgressWork(store, files)
    THEN stopPolling /\ UNCHANGED <<pollInFlight, pollTask>>
    ELSE IF AlreadyPolling
         THEN UNCHANGED <<pollIntervalId, timers, isPolling, pollInFlight, pollTask>>
         ELSE /\ isPolling' = TRUE
              /\ pollIntervalId' = NewTimer
              /\ timers' = timers \cup {NewTimer}
              /\ pollOnce(store)

\* The files of a store as the backend lists them: how many are in progress.
ListedFiles(storeId) == indexing[storeId].in_progress

\* lines 268-277: syncSelectedStoreFromList with the list the backend returns.
syncSelectedStoreFromList(store) ==
    IF store.id # "" /\ indexing[store.id].exists
    THEN [id |-> store.id, in_progress |-> indexing[store.id].in_progress]
    ELSE store

\* lines 106-121: the answer of listStoreFiles; a failure leaves storeFiles.
FilesAfter(storeId, ok) == IF ok THEN ListedFiles(storeId) ELSE storeFiles

\* lines 63-79: the answer of listVectorStores; a failure leaves selectedStore.
StoreAfter(ok) == IF ok THEN syncSelectedStoreFromList(selectedStore) ELSE selectedStore

\* A request about a store the backend has deleted fails.
Answers(storeId) == IF indexing[storeId].exists THEN BOOLEAN ELSE {FALSE}

\* lines 100-102: selectStore up to the await of loadStoreFiles.
selectStore(s) ==
    /\ ~destroyed
    /\ indexing[s].exists
    /\ selectedStore' = [id |-> s, in_progress |-> indexing[s].in_progress]
    /\ callbacks' = callbacks \cup {Continuation("select", s)}
    /\ UNCHANGED <<storeFiles, pollIntervalId, pollInFlight, isPolling, timers, destroyed,
                   pollTask, indexing>>

\* lines 102-103 and 112-113: the files arrive; startPollingIfNeeded().
SelectFilesLoaded(c, ok) ==
    /\ c \in callbacks
    /\ c.kind = "select"
    /\ ok \in Answers(c.store)
    /\ callbacks' = callbacks \ {c}
    /\ storeFiles' = FilesAfter(c.store, ok)
    /\ startPollingIfNeeded(selectedStore, storeFiles')
    /\ UNCHANGED <<selectedStore, destroyed, indexing>>

\* lines 172-182: uploadQueuedFiles up to the await of uploadFiles.
uploadQueuedFiles ==
    /\ ~destroyed
    /\ selectedStore.id # ""
    /\ ~isUploadingFile
    /\ indexing[selectedStore.id].in_progress < MaxInProgress
    /\ callbacks' = callbacks \cup {Continuation("upload", selectedStore.id)}
    /\ UNCHANGED <<selectedStore, storeFiles, pollIntervalId, pollInFlight, isPolling, timers,
                   destroyed, pollTask, indexing>>

\* lines 184-199 and 203: the upload succeeded; the uploaded file is shown in
\* progress and the delayed callback is scheduled.
UploadDone(c) ==
    /\ c \in callbacks
    /\ c.kind = "upload"
    /\ indexing[c.store].exists
    /\ indexing[c.store].in_progress < MaxInProgress
    /\ indexing' = [indexing EXCEPT ![c.store].in_progress = @ + 1]
    /\ storeFiles' = storeFiles + 1
    /\ callbacks' = (callbacks \ {c}) \cup {Continuation("delayed", c.store)}
    /\ UNCHANGED <<selectedStore, pollIntervalId, pollInFlight, isPolling, timers, destroyed,
                   pollTask>>

\* lines 200-204: the upload failed.
UploadFailed(c) ==
    /\ c \in callbacks
    /\ c.kind = "upload"
    /\ callbacks' = callbacks \ {c}
    /\ UNCHANGED <<selectedStore, storeFiles, pollIntervalId, pollInFlight, isPolling, timers,
                   destroyed, pollTask, indexing>>

\* lines 195-199: 750 ms later the callback asks for the files and the stores
\* and calls startPollingIfNeeded().
DelayedCallback(c) ==
    /\ c \in callbacks
    /\ c.kind = "delayed"
    /\ callbacks' = (callbacks \ {c})
                        \cup {Continuation("files", c.store), Continuation("stores", "")}
    /\ startPollingIfNeeded(selectedStore, storeFiles)
    /\ UNCHANGED <<selectedStore, storeFiles, destroyed, indexing>>

\* lines 112-113: the files the delayed callback asked for arrive.
FilesLoaded(c, ok) ==
    /\ c \in callbacks
    /\ c.kind = "files"
    /\ ok \in Answers(c.store)
    /\ callbacks' = callbacks \ {c}
    /\ storeFiles' = FilesAfter(c.store, ok)
    /\ UNCHANGED <<selectedStore, pollIntervalId, pollInFlight, isPolling, timers, destroyed,
                   pollTask, indexing>>

\* lines 69-71: the stores the delayed callback asked for arrive.
StoresLoaded(c, ok) ==
    /\ c \in callbacks
    /\ c.kind = "stores"
    /\ callbacks' = callbacks \ {c}
    /\ selectedStore' = StoreAfter(ok)
    /\ UNCHANGED <<storeFiles, pollIntervalId, pollInFlight, isPolling, timers, destroyed,
                   pollTask, indexing>>

\* The interval timer fires: () => this.pollOnce()
TimerTick(t) ==
    /\ t \in timers
    /\ pollOnce(selectedStore)
    /\ UNCHANGED <<selectedStore, storeFiles, pollIntervalId, isPolling, timers, destroyed,
                   callbacks, indexing>>

\* lines 258-259: the files of pollOnce arrive; it asks for the stores.
PollFilesLoaded(t, ok) ==
    /\ t \in pollTask
    /\ t.pc = "files"
    /\ ok \in Answers(t.store)
    /\ storeFiles' = FilesAfter(t.store, ok)
    /\ pollTask' = (pollTask \ {t}) \cup {[t EXCEPT !.pc = "stores"]}
    /\ UNCHANGED <<selectedStore, pollIntervalId, pollInFlight, isPolling, timers, destroyed,
                   callbacks, indexing>>

\* lines 259-265: the stores of pollOnce arrive; finally.
PollStoresLoaded(t, ok) ==
    /\ t \in pollTask
    /\ t.pc = "stores"
    /\ selectedStore' = StoreAfter(ok)
    /\ pollTask' = pollTask \ {t}
    /\ pollInFlight' = FALSE
    /\ IF ~hasInProgressWork(selectedStore', storeFiles)
       THEN stopPolling
       ELSE UNCHANGED <<pollIntervalId, timers, isPolling>>
    /\ UNCHANGED <<storeFiles, destroyed, callbacks, indexing>>

\* lines 301-309: deleteStore up to the await of deleteVectorStore.
deleteStore(s) ==
    /\ ~destroyed
    /\ indexing[s].exists
    /\ callbacks' = callbacks \cup {Continuation("delete", s)}
    /\ UNCHANGED <<selectedStore, storeFiles, pollIntervalId, pollInFlight, isPolling, timers,
                   destroyed, pollTask, indexing>>

\* lines 310-314: the store is deleted; when it is the selected one the
\* selection and the files shown are dropped.
StoreDeleted(c) ==
    /\ c \in callbacks
    /\ c.kind = "delete"
    /\ indexing[c.store].exists
    /\ indexing' = [indexing EXCEPT ![c.store] = [exists |-> FALSE, in_progress |-> 0]]
    /\ callbacks' = callbacks \ {c}
    /\ IF selectedStore.id = c.store
       THEN selectedStore' = NoStore /\ storeFiles' = 0
       ELSE UNCHANGED <<selectedStore, storeFiles>>
    /\ UNCHANGED <<pollIntervalId, pollInFlight, isPolling, timers, destroyed, pollTask>>

\* lines 315-316: the delete failed.
DeleteFailed(c) ==
    /\ c \in callbacks
    /\ c.kind = "delete"
    /\ callbacks' = callbacks \ {c}
    /\ UNCHANGED <<selectedStore, storeFiles, pollIntervalId, pollInFlight, isPolling, timers,
                   destroyed, pollTask, indexing>>

\* lines 59-61
ngOnDestroy ==
    /\ ~destroyed
    /\ destroyed' = TRUE
    /\ stopPolling
    /\ UNCHANGED <<selectedStore, storeFiles, pollInFlight, pollTask, callbacks, indexing>>

\* Upstream: a file of the store is indexed.
FileIndexed(s) ==
    /\ indexing[s].in_progress > 0
    /\ indexing' = [indexing EXCEPT ![s].in_progress = @ - 1]
    /\ UNCHANGED <<selectedStore, storeFiles, pollIntervalId, pollInFlight, isPolling, timers,
                   destroyed, pollTask, callbacks>>

\* One more of the user's operations.
UserOp == userOps < MaxUserOps /\ userOps' = userOps + 1

\* What the user does.
PollUserNext ==
    \/ \E s \in StoreIds : selectStore(s) /\ UserOp /\ UNCHANGED nonPollUserVars
    \/ uploadQueuedFiles /\ UserOp /\ UNCHANGED nonPollUserVars
    \/ \E s \in StoreIds : deleteStore(s) /\ UserOp /\ UNCHANGED nonPollUserVars
    \/ ngOnDestroy /\ UNCHANGED nonPollVars

\* What happens without the user: answers, timers, indexing.
PollSystemNext ==
    \/ \E c \in callbacks, ok \in BOOLEAN : SelectFilesLoaded(c, ok) /\ UNCHANGED nonPollVars
    \/ \E c \in callbacks : UploadDone(c) /\ UNCHANGED nonPollVars
    \/ \E c \in callbacks : UploadFailed(c) /\ UNCHANGED nonPollVars
    \/ \E c \in callbacks : DelayedCallback(c) /\ UNCHANGED nonPollVars
    \/ \E c \in callbacks, ok \in BOOLEAN : FilesLoaded(c, ok) /\ UNCHANGED nonPollVars
    \/ \E c \in callbacks, ok \in BOOLEAN : StoresLoaded(c, ok) /\ UNCHANGED nonPollVars
    \/ \E t \in timers : TimerTick(t) /\ UNCHANGED nonPollVars
    \/ \E t \in pollTask, ok \in BOOLEAN : PollFilesLoaded(t, ok) /\ UNCHANGED nonPollVars
    \/ \E t \in pollTask, ok \in BOOLEAN : PollStoresLoaded(t, ok) /\ UNCHANGED nonPollVars
    \/ \E c \in callbacks : StoreDeleted(c) /\ UNCHANGED nonPollVars
    \/ \E c \in callbacks : DeleteFailed(c) /\ UNCHANGED nonPollVars
    \/ \E s \in StoreIds : FileIndexed(s) /\ UNCHANGED nonPollVars

PollNext == PollUserNext \/ PollSystemNext

\* One request arrives at a server whose registry is empty or holds an
\* assistant of an earlier request.
Prompts == {Undefined, Str(<<" ">>), Str(<<"q", " ">>)}
RequestStoreIds == {Undefined, Str(<<" ">>), Str(<<" ", "a">>)}
RequestThreadIds == {Undefined, Str("th_9")}

\* The thread of an earlier conversation exists and holds a message.
EarlierThreads ==
    [t \in ThreadIds |-> IF t = "th_9"
                         THEN [exists |-> TRUE, messages |-> << <<"p">> >>, requests |-> 0]
                         ELSE NoThread]

Registries ==
    { [v \in VectorStoreIds \cup {<<>>} |-> NoId],
      [v \in VectorStoreIds \cup {<<>>} |-> IF v = <<"a">> THEN "asst_1" ELSE NoId] }

ChatInit ==
    /\ RegIdle
    /\ IdxIdle
    /\ MetaIdle
    /\ CiteIdle
    /\ MirIdle
    /\ ConvIdle
    /\ StoreIdle
    /\ ShareIdle
    /\ ViewIdle
    /\ PollIdle
    /\ apiKey \in BOOLEAN
    /\ assistantIdByVectorStoreId \in Registries
    /\ body \in [prompt : Prompts, vectorStoreId : RequestStoreIds, threadId : RequestThreadIds]
    /\ pc = "request"
    /\ assistantId = NoId
    /\ threadId = NoId
    /\ runId = NoId
    /\ start = 0
    /\ now = 0
    /\ polls = 0
    /\ status = ""
    /\ messagesData = <<>>
    /\ reply = <<>>
    /\ res = NoRes
    /\ threads = EarlierThreads
    /\ runPlan \in RunPlans
    /\ calls = [e \in Endpoints |-> 0]
    /\ lastFail = NoFail

SpecChat == ChatInit /\ [][ChatNext]_vars

----------------------------------------------------------------------------
(* The poll loop *)

\* The run answers in_progress to its first n status calls and completed to
\* the next one, and every status call the handler made was answered.
InProgressThenCompleted ==
    /\ runPlan.ends
    /\ runPlan.pending = "in_progress"
    /\ runPlan.final = "completed"
    /\ lastFail.at # "status"

\* The poll loop has ended.
LoopLeft == polls >= 1 /\ pc \in {"messages", "citations", "done"}

RunTimeout == res.status = 504

\* C1 as stated: for every N, a run that answers in_progress N times and then
\* completed is polled exactly N+1 times and the loop ends in success, never in
\* RunTimeout.
C1_AnyN ==
    (InProgressThenCompleted /\ LoopLeft)
        => (polls = runPlan.n + 1 /\ status = "completed" /\ ~RunTimeout)

\* C1 amended: such a run is polled exactly N+1 times and the loop ends in
\* success, unless one of the in_progress answers is received more than
\* maxWaitMs after the run start: the handler then answers RunTimeout on that
\* answer, after at most N status calls.
C1_PollSuccess ==
    (InProgressThenCompleted /\ LoopLeft)
        => IF RunTimeout
           THEN now - start > maxWaitMs /\ polls <= runPlan.n /\ status = "in_progress"
           ELSE polls = runPlan.n + 1 /\ status = "completed"

C1_Witness ==
    /\ InProgressThenCompleted
    /\ runPlan.n = 3
    /\ pc = "done"
    /\ res.status = 200
    /\ polls = 4

\* ceil(maxWaitMs / sleepIntervalMs) + 1
ClaimedMaxPolls == ((maxWaitMs + sleepIntervalMs - 1) \div sleepIntervalMs) + 1

\* The status calls at 0, 800, ..., 60000 ms find the budget not exceeded; the
\* one at 60800 ms does.
MaxPolls == (maxWaitMs \div sleepIntervalMs) + 2

NeverTerminal == ~runPlan.ends /\ lastFail.at # "status"

\* C2 as stated: a run that never reaches a terminal status ends in
\* RunTimeout after at most ceil(60000/800)+1 = 76 status calls.
C2_AtMost76 ==
    /\ polls <= ClaimedMaxPolls
    /\ (NeverTerminal /\ pc = "done" /\ polls >= 1) => RunTimeout

\* C2 amended: no run is polled more than floor(60000/800)+2 = 77 times, and
\* a run that never reaches a terminal status ends in RunTimeout.
C2_AtMost77 ==
    /\ polls <= MaxPolls
    /\ (NeverTerminal /\ pc = "done" /\ polls >= 1) => RunTimeout

C2_Witness ==
    /\ NeverTerminal
    /\ pc = "done"
    /\ RunTimeout
    /\ polls = MaxPolls
    /\ now - start = maxWaitMs + sleepIntervalMs

----------------------------------------------------------------------------
(* Error propagation *)

\* C7 as stated: whatever backend call answers non-success (here with a JSON
\* body), the caller receives the upstream's status code and body unchanged.
C7_PassThroughEverywhere ==
    (pc = "done" /\ lastFail # NoFail /\ lastFail.json)
        => (res.status = lastFail.status /\ res.body = lastFail.doc)

----------------------------------------------------------------------------
(* The assistant registry *)

\* The state of one chat request that has not arrived.
ChatIdle ==
    /\ body = [prompt |-> Undefined, vectorStoreId |-> Undefined, threadId |-> Undefined]
    /\ pc = "request"
    /\ assistantId = NoId
    /\ threadId = NoId
    /\ runId = NoId
    /\ start = 0
    /\ now = 0
    /\ polls = 0
    /\ status = ""
    /\ messagesData = <<>>
    /\ reply = <<>>
    /\ res = NoRes
    /\ threads = EarlierThreads
    /\ runPlan = [ends |-> TRUE, n |-> 0, pending |-> "queued", final |-> "completed",
                  lastError |-> ""]
    /\ calls = [e \in Endpoints |-> 0]
    /\ lastFail = NoFail

RegistryInit ==
    /\ apiKey = TRUE
    /\ ChatIdle
    /\ RegIdle
    /\ IdxIdle
    /\ MetaIdle
    /\ CiteIdle
    /\ MirIdle
    /\ ConvIdle
    /\ StoreIdle
    /\ ShareIdle
    /\ ViewIdle
    /\ PollIdle
    /\ assistantIdByVectorStoreId = [v \in VectorStoreIds \cup {<<>>} |-> NoId]

SpecRegistry == RegistryInit /\ [][RegistryNext]_vars

\* C3: when the calls of getOrCreate for a collection id follow one another
\* and one of them has returned an id, exactly one creation call was issued
\* for that id up to that return and none after it; and a call that found
\* the id memoized made no network call and returned the memoized id.
C3_IdempotentRegistry ==
    /\ \A v \in VectorStoreIds :
        (~regLog[v].overlapped /\ regLog[v].returned >= 1)
            => /\ regLog[v].created = 1
               /\ regLog[v].createCallsAfterReturn = 0
    /\ \A c \in Callers :
        (regTask[c].pc = "returned" /\ regTask[c].hit)
            => /\ regTask[c].fetches = 0
               /\ regTask[c].result # NoId
               /\ ~regLog[regTask[c].v].overlapped
                    => regTask[c].result = assistantIdByVectorStoreId[regTask[c].v]

\* Two calls for "a" one after the other: the first created the assistant,
\* the second has returned it from the registry.
C3_Witness ==
    /\ regLog[<<"a">>].started = 2
    /\ regLog[<<"a">>].returned = 2
    /\ regLog[<<"a">>].createCalls = 1
    /\ ~regLog[<<"a">>].overlapped
    /\ regTask[1].pc = "returned" /\ regTask[1].hit /\ regTask[1].v = <<"a">>

\* Caller c's creation call fails in this step.
CreationFails(c) == regTask[c].pc = "create" /\ regTask'[c].pc = "thrown"

\* Caller c starts a call for v in this step.
CallStarts(c, v) == regTask[c].pc = "idle" /\ regTask'[c].pc # "idle" /\ regTask'[c].v = v

\* C17: a creation call that fails makes getOrCreate throw and leaves the
\* registry as it was; an id for which no creation has succeeded has no entry,
\* whatever failed before; and the next call for it issues a creation call.
C17_FailureNotCached ==
    /\ [][\A c \in Callers :
            CreationFails(c) => assistantIdByVectorStoreId' = assistantIdByVectorStoreId]_vars
    /\ [](\A v \in VectorStoreIds :
            regLog[v].created = 0 => assistantIdByVectorStoreId[v] = NoId)
    /\ [][\A c \in Callers, v \in VectorStoreIds :
            (CallStarts(c, v) /\ regLog[v].failed >= 1 /\ regLog[v].created = 0)
                => /\ regTask'[c].pc = "create"
                   /\ regLog'[v].createCalls = regLog[v].createCalls + 1]_vars

\* The creation call for "a" failed and the same caller's next call for "a" has
\* issued a second creation call.
C17_Witness ==
    /\ regLog[<<"a">>].failed = 1
    /\ regLog[<<"a">>].createCalls = 2
    /\ regLog[<<"a">>].started = 2
    /\ regTask[1].pc = "create"
    /\ assistantIdByVectorStoreId[<<"a">>] = NoId

\* The registry's entry for v, once set, is the same after this step.
BindingKept(v) ==
    assistantIdByVectorStoreId[v] # NoId
        => assistantIdByVectorStoreId'[v] = assistantIdByVectorStoreId[v]

\* C25: once the registry maps a vector store to an assistant it maps it to the
\* same assistant ever after, for every interleaving of concurrent calls, and
\* at most one assistant is created upstream per vector store.
C25_BindingPermanent ==
    /\ [][\A v \in VectorStoreIds : BindingKept(v)]_vars
    /\ [](\A v \in VectorStoreIds : regLog[v].created <= 1)

----------------------------------------------------------------------------
(* The membership index *)

IndexInit ==
    /\ apiKey = TRUE
    /\ ChatIdle
    /\ RegIdle
    /\ IdxIdle
    /\ MetaIdle
    /\ CiteIdle
    /\ MirIdle
    /\ ConvIdle
    /\ StoreIdle
    /\ ShareIdle
    /\ ViewIdle
    /\ PollIdle
    /\ assistantIdByVectorStoreId = [v \in VectorStoreIds \cup {<<>>} |-> NoId]

SpecIndex == IndexInit /\ [][IndexNext]_vars

\* C4 as stated: a call that asks for a file id the fresh cached index does not
\* hold re-enumerates the listing, so a call answered from the cache holds
\* every file id it asked for.
C4_AbsentIdReenumerates ==
    (idxTask.pc = "returned" /\ idxTask.fromCache)
        => \A f \in idxTask.openaiFileIds : MapHas(idxTask.result, f)

\* C5: a call finding an index of age < ttlMs (59 s) is answered from the
\* cache with no listing call; a call finding an index of age >= ttlMs (60 s,
\* 61 s) or no index lists the vector store's files again.
C5_TtlExpiry ==
    idxTask.pc # "idle"
        => /\ idxTask.fromCache <=> (idxTask.age >= 0 /\ idxTask.age < ttlMs)
           /\ idxTask.fromCache => idxTask.pages = 0 /\ idxTask.pc = "returned"
           /\ ~idxTask.fromCache => idxTask.pages >= 1
           /\ (idxTask.pc = "returned" /\ ~idxTask.fromCache)
                => /\ vectorStoreFileIdCache[idxTask.v].present
                   /\ vectorStoreFileIdCache[idxTask.v].createdAtMs <= now
                   /\ vectorStoreFileIdCache[idxTask.v].byOpenAIFileId = idxTask.result

\* An index exactly ttlMs old has been rebuilt.
C5_Witness ==
    /\ idxTask.pc = "returned"
    /\ idxTask.age = ttlMs
    /\ ~idxTask.fromCache
    /\ idxTask.pages >= 1

\* The upstream answers every listing request.
SpecIndexLive ==
    /\ IndexInit
    /\ [][IndexNext]_vars
    /\ WF_vars((IdxPage \/ IdxPageFailed) /\ UNCHANGED nonIdxVars)

\* The map holds what the item lists: file id to membership id, and the
\* membership id to itself when it has the form of a file id.
Indexed(map, item) ==
    /\ item.file_id # <<>> => (MapHas(map, item.file_id) /\ map[item.file_id] = item.id)
    /\ StartsWith(item.id, FilePrefix) => (MapHas(map, item.id) /\ map[item.id] = item.id)

\* A listing call ends the enumeration in this step.
EnumerationEnds == idxTask.pc = "page" /\ idxTask'.pc = "returned"

\* A listing call is followed by the request of the next page in this step.
NextPageRequested == idxTask.pc = "page" /\ idxTask'.pc = "page" /\ idxTask' # idxTask

----------------------------------------------------------------------------
(* The file metadata cache *)

MetaInit ==
    /\ apiKey = TRUE
    /\ ChatIdle
    /\ RegIdle
    /\ IdxIdle
    /\ MetaIdle
    /\ CiteIdle
    /\ MirIdle
    /\ ConvIdle
    /\ StoreIdle
    /\ ShareIdle
    /\ ViewIdle
    /\ PollIdle
    /\ assistantIdByVectorStoreId = [v \in VectorStoreIds \cup {<<>>} |-> NoId]

SpecMeta == MetaInit /\ [][MetaNext]_vars

\* C8: once a lookup of a file id was answered non-success, no later call of
\* getFileMeta for that id issues a request (the id stays cached); the failed
\* lookup returns the empty metadata instead of failing.
C8_NegativeCaching ==
    /\ \A f \in RequestedFileIds :
        /\ metaLog[f].requestsAfterFailure = 0
        /\ metaLog[f].failed => Cached(fileMetaCache[f])
    /\ \A c \in Callers :
        metaTask[c].pc = "failed" => metaTask[c].result = NoFileMeta

\* A lookup of file-1 failed, and a later call for file-1 has returned from the
\* cache: one request in two lookups.
C8_Witness ==
    /\ metaLog[FileId("1")].failed
    /\ metaLog[FileId("1")].lookups = 2
    /\ metaLog[FileId("1")].requests = 1
    /\ metaTask[1].pc = "returned"
    /\ metaTask[1].hit
    /\ metaTask[1].fileId = FileId("1")
    /\ metaTask[1].result = NoFileMeta

----------------------------------------------------------------------------
(* The citation resolver *)

\* The resolver is called with an assistant message; file-1 and file-2 are
\* attached to the vector store, and the metadata of file-2 may be cached.
CiteInit ==
    /\ apiKey = TRUE
    /\ ChatIdle
    /\ RegIdle
    /\ MetaIdle
    /\ assistantIdByVectorStoreId = [v \in VectorStoreIds \cup {<<>>} |-> NoId]
    /\ vectorStoreFileIdCache = [v \in VectorStoreIds |-> NoIndex]
    /\ listing = [v \in VectorStoreIds |->
                    IF v = CiteStore
                    THEN << [id |-> MembershipId("1"), file_id |-> FileId("1")],
                            [id |-> FileId("2"), file_id |-> <<>>] >>
                    ELSE <<>>]
    /\ idxTask = IdleIdxTask
    /\ \E annotations \in AnnotationLists : citeMessage = ContentOf(annotations)
    /\ citePc = "start"
    /\ deduped = <<>>
    /\ metaPending = {}
    /\ metas = <<>>
    /\ citations = <<>>
    /\ MirIdle
    /\ ConvIdle
    /\ StoreIdle
    /\ ShareIdle
    /\ ViewIdle
    /\ PollIdle

SpecCite == CiteInit /\ [][CiteNext]_vars

Pair(c) == <<c.fileId, c.quote>>
PairsOf(cs) == { Pair(cs[i]) : i \in 1..Len(cs) }
FirstIndex(cs, pair) == CHOOSE i \in 1..Len(cs) :
    Pair(cs[i]) = pair /\ \A j \in 1..(i - 1) : Pair(cs[j]) # pair

\* C9: the citations returned are at most as many as the distinct
\* (fileId, quote) pairs of the raw citations, each is one of those pairs, and
\* they are in the order in which their pairs first occur in the raw citations.
C9_DedupLaw ==
    citePc = "returned"
        => LET raw == RawCitations(citeMessage)
           IN  /\ Len(citations) <= Cardinality(PairsOf(raw))
               /\ PairsOf(citations) \subseteq PairsOf(raw)
               /\ \A i, j \in 1..Len(citations) :
                    i < j => FirstIndex(raw, Pair(citations[i]))
                                < FirstIndex(raw, Pair(citations[j]))

\* Three citations, two of one pair, resolved through two metadata requests
\* and the membership listing.
C9_Witness ==
    /\ citePc = "returned"
    /\ Len(RawCitations(citeMessage)) = 3
    /\ Len(citations) = 2
    /\ citations[1].fileId # citations[2].fileId
    /\ citations[1].vectorStoreFileId # <<>>

\* The entries returned for a (fileId, quote) pair.
EntriesOf(pair) == { i \in 1..Len(citations) : Pair(citations[i]) = pair }

\* C10 as stated: every (fileId, quote) pair of the raw citations, the quote
\* being absent or any string, is returned exactly once: citations of one
\* file with different quotes stay apart, equal ones are merged.
C10_PairsKept ==
    citePc = "returned"
        => \A pair \in PairsOf(RawCitations(citeMessage)) : Cardinality(EntriesOf(pair)) = 1

\* An absent quote read as the empty string.
QuoteText(c) == IF c.quote.t = "string" THEN c.quote.v ELSE <<>>
TextPair(c) == <<c.fileId, QuoteText(c)>>
TextEntriesOf(pair) == { i \in 1..Len(citations) : TextPair(citations[i]) = pair }
NoColon(s) == \A i \in 1..Len(s) : s[i] # ":"

\* The text that tells citations apart: file id, two colons, quote text.
IdentityText(c) == c.fileId \o <<":", ":">> \o QuoteText(c)
IdentityEntriesOf(text) == { i \in 1..Len(citations) : IdentityText(citations[i]) = text }

\* C10 amended: every text "<fileId>::<quote, absent read as empty>" of the raw
\* citations is returned exactly once; hence, when no file id of the raw
\* citations contains a colon, every pair of a file id and a quote text
\* (absent read as empty) of the raw citations is returned exactly once.
C10_TextPairsKept ==
    LET raw == RawCitations(citeMessage)
    IN  citePc = "returned"
            => /\ \A i \in 1..Len(raw) :
                    Cardinality(IdentityEntriesOf(IdentityText(raw[i]))) = 1
               /\ (\A i \in 1..Len(raw) : NoColon(raw[i].fileId))
                    => \A i \in 1..Len(raw) :
                            Cardinality(TextEntriesOf(TextPair(raw[i]))) = 1

\* file-1 is cited three times with two different quote strings: two entries.
C10_Witness ==
    /\ citePc = "returned"
    /\ Len(RawCitations(citeMessage)) = 3
    /\ \A i \in 1..3 : RawCitations(citeMessage)[i].fileId = FileId("1")
    /\ \A i \in 1..3 : RawCitations(citeMessage)[i].quote.t = "string"
    /\ Len(citations) = 2
    /\ citations[1].quote # citations[2].quote

----------------------------------------------------------------------------
(* The mirror read path *)

MirrorConfig == [kind |-> "config", prefix |-> <<"p", "/">>]

\* The objects the bucket can hold: the mirrored files of the memberships
\* vsf_1 and file-2 of store "a", an object under the file-id form of the first,
\* and two directory markers.
MirrorKeys ==
    { buildVectorStoreFilePrefix(MirrorConfig, <<"a">>, MembershipId("1")) \o <<"x">>,
      buildVectorStoreFilePrefix(MirrorConfig, <<"a">>, FileId("2")) \o <<"y">>,
      buildVectorStoreFilePrefix(MirrorConfig, <<"a">>, FileId("1")) \o <<"z">>,
      buildVectorStoreFilePrefix(MirrorConfig, <<"a">>, MembershipId("1")),
      buildVectorStoreRootPrefix(MirrorConfig, <<"a">>) }

MirrorInit ==
    /\ apiKey \in BOOLEAN
    /\ ChatIdle
    /\ RegIdle
    /\ MetaIdle
    /\ CiteIdle
    /\ ConvIdle
    /\ StoreIdle
    /\ ShareIdle
    /\ ViewIdle
    /\ PollIdle
    /\ assistantIdByVectorStoreId = [v \in VectorStoreIds \cup {<<>>} |-> NoId]
    /\ vectorStoreFileIdCache = [v \in VectorStoreIds |-> NoIndex]
    /\ listing = [v \in VectorStoreIds |->
                    IF v = <<"a">>
                    THEN << [id |-> MembershipId("1"), file_id |-> FileId("1")],
                            [id |-> FileId("2"), file_id |-> <<>>] >>
                    ELSE <<>>]
    /\ idxTask = IdleIdxTask
    /\ s3Env \in [bucket : {<<>>, <<" ">>, <<"b">>}, region : {<<>>, <<"e">>},
                  prefix : {<<"p">>}]
    /\ s3Objects \in SUBSET MirrorKeys
    /\ mirReq \in [id : {<<"a">>, <<"b">>, <<" ">>},
                   fileId : {MembershipId("1"), FileId("1"), FileId("2"), <<" ">>}]
    /\ mirTask = IdleMirTask
    /\ mirRes = NoRes

SpecMirror == MirrorInit /\ [][MirrorNext]_vars

Unconfigured == Trim(s3Env.bucket) = <<>>

\* A key that is not a directory marker lies under the prefix.
ObjectUnder(prefix) ==
    \E k \in s3Objects : StartsWith(k, prefix) /\ ~EndsWith(k, <<"/">>)

\* The request got as far as looking the object up, and no S3 call failed.
LookedUp ==
    /\ mirTask.pc = "done"
    /\ mirTask.primaryPrefix # <<>>
    /\ mirRes.body # ErrorBody(<<"S3 error">>)

----------------------------------------------------------------------------
(* One turn: any request body, a run that ends early or never *)

TurnPrompts == {Undefined, Str(<<>>), Str(<<" ">>), Str(<<"q", " ">>)}
TurnStoreIds == {Undefined, Str(<<>>), Str(<<" ", "\n">>), Str(<<" ", "a">>)}
TurnThreadIds == {Undefined, Str(""), Str("th_8"), Str("th_9")}

TurnInit ==
    /\ RegIdle
    /\ IdxIdle
    /\ MetaIdle
    /\ CiteIdle
    /\ MirIdle
    /\ ConvIdle
    /\ StoreIdle
    /\ ShareIdle
    /\ ViewIdle
    /\ PollIdle
    /\ apiKey \in BOOLEAN
    /\ assistantIdByVectorStoreId \in Registries
    /\ body \in [prompt : TurnPrompts, vectorStoreId : TurnStoreIds, threadId : TurnThreadIds]
    /\ pc = "request"
    /\ assistantId = NoId
    /\ threadId = NoId
    /\ runId = NoId
    /\ start = 0
    /\ now = 0
    /\ polls = 0
    /\ status = ""
    /\ messagesData = <<>>
    /\ reply = <<>>
    /\ res = NoRes
    /\ threads = EarlierThreads
    /\ runPlan \in { p \in RunPlans : p.n <= MaxShortPlan }
    /\ calls = [e \in Endpoints |-> 0]
    /\ lastFail = NoFail

SpecTurn == TurnInit /\ [][ChatNext]_vars

\* Every call the handler awaits returns and every delay ends.
SpecTurnLive == TurnInit /\ [][ChatNext]_vars /\ WF_vars(ChatNext)

\* The status call numbered polls was answered with `status`.
Observed == polls >= 1 /\ status = StatusOfPoll(runPlan, polls) /\ pc # "status"

RunFailedText ==
    IF runPlan.lastError # "" THEN <<runPlan.lastError>> ELSE <<"Run ", status>>

\* C11: once a status call is answered failed, cancelled or expired, the
\* response is the error whose text is the upstream's last_error message when
\* there is one and "Run <status>" otherwise; the status call that was so
\* answered is the last one and no messages call is issued.
C11_RunFailedReason ==
    status \in {"failed", "cancelled", "expired"}
        => /\ pc = "done"
           /\ res = [status |-> 500, body |-> <<"error">> \o RunFailedText, threadId |-> NoId]
           /\ polls = runPlan.n + 1
           /\ calls["status"] = polls
           /\ calls["messages"] = 0

\* The run reports failed with the message rate_limit_exceeded on the third
\* status call.
C11_Witness ==
    /\ status = "failed"
    /\ runPlan.lastError = "rate_limit_exceeded"
    /\ polls = 3
    /\ res.body = <<"error", "rate_limit_exceeded">>

\* The value is not a string, or is empty or all white space.
Blank(x) == x.t # "string" \/ \A i \in 1..Len(x.v) : x.v[i] \in {" ", "\n"}

BadInput == Blank(body.prompt) \/ Blank(body.vectorStoreId)

NoUpstreamCall == \A e \in Endpoints : calls[e] = 0

InLoop(p) == p \in {"status", "sleep"}

\* The outcomes of a turn.
Success == res.status = 200
BadRequest == res.status = 400
UpstreamUnavailable == res = Respond(500, <<"error", "OpenAI API key not configured">>)
UpstreamError == lastFail # NoFail
RunFailed == status \in {"failed", "cancelled", "expired"} /\ res.status = 500
NoReplyFound == res = Respond(500, <<"error", "No assistant reply found">>)
Outcomes == <<Success, BadRequest, UpstreamUnavailable, UpstreamError, RunFailed,
              RunTimeout, NoReplyFound>>

\* C13: a request starts at most one run and polls it in one loop that is not
\* entered again once left; a response is sent exactly when the handler
\* is done, it is never replaced, and it is exactly one of the seven
\* outcomes; success follows a status call answered completed; and, every call
\* returning, the handler gets done.
C13_BoundedWait ==
    /\ [](/\ calls["createRun"] <= 1
          /\ calls["status"] = polls
          /\ polls <= MaxPolls
          /\ (pc = "done") <=> (res # NoRes)
          /\ pc = "done"
                => Cardinality({ i \in 1..Len(Outcomes) : Outcomes[i] }) = 1
          /\ Success => (polls >= 1 /\ status = "completed"))
    /\ [][/\ res # NoRes => res' = res
          /\ (InLoop(pc') /\ ~InLoop(pc)) => (pc = "createRun" /\ polls = 0)]_vars
    /\ <>(pc = "done")

\* A run that never ends was polled until the budget was exceeded.
C13_Witness ==
    /\ ~runPlan.ends
    /\ pc = "done"
    /\ RunTimeout
    /\ polls > 3

\* The handler's step on a status answer.
StatusAnswered == pc = "status" /\ pc' # "status" /\ lastFail' = lastFail

\* C14: a status answer of completed leaves the loop for the messages call;
\* failed, cancelled and expired end the turn in RunFailed; every other
\* status (queued, in_progress, requires_action, an unrecognised value) is
\* neither: while the wait budget is not exceeded the handler waits
\* sleepIntervalMs and issues the next status call, the same for each of them.
C14_RunStateMachine ==
    /\ [][StatusAnswered =>
            IF status' = "completed" THEN pc' = "messages" /\ res' = NoRes
            ELSE IF status' \in {"failed", "cancelled", "expired"}
            THEN pc' = "done" /\ res'.status = 500
            ELSE IF now' - start > maxWaitMs
            THEN pc' = "done" /\ res'.status = 504
            ELSE pc' = "sleep" /\ res' = NoRes]_vars
    /\ [][pc = "sleep" => /\ pc' = "status"
                          /\ now' = now + sleepIntervalMs
                          /\ polls' = polls + 1
                          /\ calls'["status"] = calls["status"] + 1]_vars

\* requires_action was answered twice and the run is polled a third time.
C14_Witness ==
    /\ runPlan.pending = "requires_action"
    /\ status = "requires_action"
    /\ pc = "status"
    /\ polls = 3

StepsBeforeLoop == {"createThread", "addMessage", "createRun"}

\* C15: a run-start call is issued only after the one message-append call
\* succeeded, a status call only after the one run-start call succeeded; when
\* thread creation, message append or run start answers non-success the
\* handler is done, having issued no status call.
C15_StepOrdering ==
    /\ calls["createRun"] >= 1
        => /\ calls["addMessage"] = 1
           /\ lastFail.at \notin {"createThread", "addMessage"}
           /\ threads[threadId].messages # <<>>
    /\ calls["status"] >= 1
        => /\ calls["createRun"] = 1
           /\ lastFail.at \notin StepsBeforeLoop
           /\ runId # NoId
    /\ lastFail.at \in StepsBeforeLoop
        => (pc = "done" /\ polls = 0 /\ calls["status"] = 0 /\ calls["messages"] = 0)

\* The run start answered non-success after the message was appended to the
\* thread the request named.
C15_Witness ==
    /\ lastFail.at = "createRun"
    /\ pc = "done"
    /\ body.threadId = Str("th_9")
    /\ Len(threads["th_9"].messages) = 2
    /\ polls = 0

\* C16: once a call of the turn answered non-success the handler is done, its
\* response an error, and no further upstream call is issued; calls other than
\* the status call are issued at most once.
C16_NoRetries ==
    /\ [](/\ lastFail # NoFail => (pc = "done" /\ res.status >= 400)
          /\ \A e \in Endpoints \ {"status"} : calls[e] <= 1)
    /\ [][lastFail # NoFail => (calls' = calls /\ threads' = threads)]_vars

\* The second status call answered non-success.
C16_Witness ==
    /\ lastFail.at = "status"
    /\ polls = 2
    /\ pc = "done"
    /\ res.status = lastFail.status

NoThreadId == body.threadId.t # "string" \/ body.threadId.v = ""

ThreadCalls == calls["addMessage"] + calls["createRun"] + calls["status"] + calls["messages"]

\* C18: a request without a thread id that gets its assistant issues exactly
\* one thread-creation call and a success response carries the id of the thread
\* so created; a request with a thread id issues none and a success response
\* carries that id; every message-append, run-start, status and messages call
\* is addressed to that one thread.
C18_ThreadAdoption ==
    /\ NoThreadId
        => /\ calls["createThread"] = (IF assistantId # NoId THEN 1 ELSE 0)
           /\ Success => /\ res.threadId = NewThreadIds[1]
                         /\ threads[res.threadId].exists
           /\ threadId \in {NoId, NewThreadIds[1]}
    /\ ~NoThreadId
        => /\ calls["createThread"] = 0
           /\ Success => res.threadId = body.threadId.v
           /\ threadId \in {NoId, body.threadId.v}
    /\ \A t \in ThreadIds : threads[t].requests = (IF t = threadId THEN ThreadCalls ELSE 0)
    /\ threadId = NoId => ThreadCalls = 0

\* A turn on the thread the request named succeeded after two status calls.
C18_Witness ==
    /\ body.threadId = Str("th_9")
    /\ Success
    /\ res.threadId = "th_9"
    /\ polls = 2
    /\ threads["th_9"].requests = 5

AssistantPositions == { i \in 1..Len(messagesData) : messagesData[i].role = "assistant" }

\* The text of the first message of role assistant, empty when there is none.
FirstAssistantText ==
    IF AssistantPositions = {} THEN <<>>
    ELSE LET first == CHOOSE i \in AssistantPositions : \A j \in AssistantPositions : i <= j
         IN  extractAssistantText(messagesData[first])

MessagesAnswered == calls["messages"] = 1 /\ pc # "messages" /\ lastFail.at # "messages"

\* C20: the messages call follows a completed run; the reply is the text of
\* the first of the returned messages whose role is assistant; when there is
\* none or its text is empty the turn ends in NoReplyFound at once, without
\* citation resolution.
C20_ReplySelection ==
    /\ [](/\ calls["messages"] >= 1 => status = "completed"
          /\ MessagesAnswered
                => /\ reply = FirstAssistantText
                   /\ FirstAssistantText = <<>> => (pc = "done" /\ NoReplyFound)
                   /\ FirstAssistantText # <<>> => ~NoReplyFound
                   /\ Success => res.body = <<"reply">> \o FirstAssistantText)
    /\ [][(NoReplyFound' /\ ~NoReplyFound) => pc = "messages"]_vars
    /\ [](pc = "citations" => reply # <<>>)

\* The newest message is the user's; the assistant's follows and is the reply.
C20_Witness ==
    /\ Len(messagesData) = 2
    /\ messagesData[1].role = "user"
    /\ Success
    /\ res.body = <<"reply", "r">>

----------------------------------------------------------------------------
(* A conversation of several turns *)

ConversationInit ==
    /\ ChatIdle
    /\ RegIdle
    /\ IdxIdle
    /\ MetaIdle
    /\ CiteIdle
    /\ MirIdle
    /\ ConvIdle
    /\ StoreIdle
    /\ ShareIdle
    /\ ViewIdle
    /\ PollIdle
    /\ apiKey = TRUE
    /\ assistantIdByVectorStoreId = [v \in VectorStoreIds \cup {<<>>} |-> NoId]

SpecConversation == ConversationInit /\ [][ConversationNext]_vars

\* The thread holds the user messages of all the turns answered so far.
HoldsContext(t) ==
    /\ threads[t].exists
    /\ \A i \in 1..Len(context) :
        /\ context[i].thread = t
        /\ \E j \in 1..Len(threads[t].messages) : threads[t].messages[j] = context[i].prompt

\* An error response arrives in this step.
TurnFails == convPc = "waiting" /\ convPc' = "idle" /\ res.status # 200

\* C19: an error response leaves the client's thread id and the conversation
\* shown as they were; hence every request the client sends while the
\* conversation shown holds answered turns, a retry after a failed turn
\* included, names the thread that holds the messages of those turns.
C19_ThreadPreserved ==
    /\ [][TurnFails => (clientThreadId' = clientThreadId /\ context' = context)]_vars
    /\ [](context # <<>> => HoldsContext(clientThreadId))
    /\ []((convPc = "waiting" /\ context # <<>> /\ pc = "request")
            => (body.threadId = Str(clientThreadId) /\ HoldsContext(body.threadId.v)))

\* The first turn was answered, the second failed after its message was
\* appended, and the retry is being served on the same thread.
C19_Witness ==
    /\ Len(context) = 1
    /\ lastTurnFailed
    /\ sends = 3
    /\ convPc = "waiting"
    /\ body.threadId = Str(context[1].thread)
    /\ Len(threads[context[1].thread].messages) = 3

\* The process-wide caches.
Caches == <<assistantIdByVectorStoreId, fileMetaCache, vectorStoreFileIdCache>>

\* The handler gives the run up in this step: it failed or the wait ended.
RunGivenUp == pc = "status" /\ pc' = "done" /\ res'.status \in {500, 504} /\ lastFail' = lastFail

\* C27: the step in which the handler answers RunTimeout or RunFailed issues
\* no upstream call and leaves the registry, the metadata cache and the
\* membership index as they were; the turn so ended has issued no cancel
\* call and no messages call, and its last call was the status call so answered.
C27_TimeoutLocal ==
    /\ [][RunGivenUp => (calls' = calls /\ threads' = threads /\ Caches' = Caches)]_vars
    /\ []((pc = "done" /\ (RunTimeout \/ RunFailed))
            => /\ calls["cancelRun"] = 0
               /\ calls["messages"] = 0
               /\ calls["status"] = polls)
    /\ [](calls["cancelRun"] = 0)

\* The second status call was answered in_progress after the budget had run out.
C27_Witness ==
    /\ pc = "done"
    /\ RunTimeout
    /\ polls = 2
    /\ status = "in_progress"
    /\ now - start > maxWaitMs

----------------------------------------------------------------------------
(* Uploads with metadata lookups; deletes with uploads and a fetch *)

StoreInit ==
    /\ ChatIdle
    /\ RegIdle
    /\ CiteIdle
    /\ ConvIdle
    /\ StoreIdle
    /\ ShareIdle
    /\ ViewIdle
    /\ PollIdle
    /\ apiKey = TRUE
    /\ assistantIdByVectorStoreId = [v \in VectorStoreIds \cup {<<>>} |-> NoId]
    /\ vectorStoreFileIdCache = [v \in VectorStoreIds |-> NoIndex]
    /\ listing = [v \in VectorStoreIds |-> <<>>]
    /\ idxTask = IdleIdxTask
    /\ fileMetaCache = [f \in StoreFileIds |-> NoEntry]
    /\ metaTask = [c \in Callers |-> IdleMetaTask]
    /\ metaLog = [f \in StoreFileIds |-> EmptyMetaLog]
    /\ s3Env \in [bucket : {<<>>, <<"b">>}, region : {<<>>, <<"e">>}, prefix : {<<"p">>}]
    /\ mirTask = IdleMirTask
    /\ mirRes = NoRes

UploadInit ==
    /\ StoreInit
    /\ s3Objects = {}
    /\ mirReq = [id |-> <<>>, fileId |-> <<>>]

SpecUpload == UploadInit /\ [][UploadNext \/ LookupNext]_vars

DeleteInit ==
    /\ StoreInit
    /\ s3Objects \in SUBSET MirrorKeys
    /\ mirReq = [id |-> <<"a">>, fileId |-> MembershipId("1")]

\* A delete request, an upload of one file and a fetch, concurrently.
DeleteAndOthersNext ==
    \/ DeleteNext
    \/ UpReceive(<<"a">>, <<UploadFile(<<"x">>, 1)>>) /\ UNCHANGED nonStoreVars
    \/ UploadSteps
    \/ FetchNext

SpecDelete == DeleteInit /\ [][DeleteAndOthersNext]_vars

\* The keys of the bucket under a prefix.
Under(objects, prefix) == { k \in objects : StartsWith(k, prefix) }

InDeleteLoop == delTask.pc \in {"list", "delete"}

\* deleteAllObjectsUnderPrefix returns without error in this step.
DeleteReturns == InDeleteLoop /\ delTask'.returned

\* The next page is requested in this step.
NextDeletePage == InDeleteLoop /\ delTask'.pc = "list" /\ delTask'.pages = delTask.pages + 1

LookupOf(c, u) == metaTask[c].pc # "idle" /\ metaTask[c].fileId = u.fileId

\* C23: once the upload endpoint has created a file upstream, every
\* getFileMeta call for the file's id is answered from the cache with the
\* uploaded name and size, and no metadata request for it is ever issued.
C23_UploadCachesMeta ==
    \A u \in storeLog.uploaded :
        /\ metaLog[u.fileId].requests = 0
        /\ \A c \in Callers :
              LookupOf(c, u) =>
                  /\ metaTask[c].hit
                  /\ metaTask[c].pc = "returned"
                  /\ metaTask[c].result.present
                  /\ metaTask[c].result.bytes = u.size
                  /\ metaTask[c].result.filename = u.originalname

C23_Witness ==
    /\ upTask.pc = "done"
    /\ upTask.status = 200
    /\ \E u \in storeLog.uploaded, c \in Callers :
          /\ LookupOf(c, u)
          /\ metaTask[c].hit
          /\ metaLog[u.fileId].lookups >= 2

\* prefix/collectionId/files/membershipId/filename.
MirrorKeyOf(prefix, v, m, filename) ==
    prefix \o v \o <<"/", "f", "i", "l", "e", "s", "/">> \o m \o <<"/">> \o filename

\* The name as it enters a key: sanitized, "file" when nothing is left of it.
KeyName(originalname) ==
    IF sanitizeS3KeyComponent(originalname) = <<>> THEN <<"f", "i", "l", "e">>
    ELSE sanitizeS3KeyComponent(originalname)

\* The directory marker of the collection: prefix/collectionId/.
FolderMarker == upTask.config.prefix \o sanitizeS3KeyComponent(upTask.v) \o <<"/">>

\* The key of the file of a membership created by the upload request.
MirroredKey(a) ==
    MirrorKeyOf(upTask.config.prefix, sanitizeS3KeyComponent(a.v), sanitizeS3KeyComponent(a.m),
          KeyName(upTask.files[a.i].originalname))

PartlyDeleted ==
    /\ InDeleteLoop
    /\ delTask.token # <<>>
    /\ Under(s3Objects, delTask.prefix) # {}

\* The fetch lists a prefix inside the prefix that is being deleted.
FetchLists ==
    /\ mirTask.pc = "listPrimary"
    /\ mirTask'.pc # "listPrimary"
    /\ StartsWith(mirTask.primaryPrefix, delTask.prefix)

\* C28: whatever the interleaving of a mirror delete with a fetch or an upload
\* on the same prefix, no fetch lists the prefix when some but not all of its
\* objects are deleted, and when the delete returns no object is left under
\* the prefix.
C28_NoPartialDelete ==
    /\ [][FetchLists => ~PartlyDeleted]_vars
    /\ [][DeleteReturns => Under(s3Objects', delTask.prefix) = {}]_vars

----------------------------------------------------------------------------
(* Two requests on one thread *)

ShareInit ==
    /\ ChatIdle
    /\ RegIdle
    /\ IdxIdle
    /\ MetaIdle
    /\ CiteIdle
    /\ MirIdle
    /\ ConvIdle
    /\ StoreIdle
    /\ ViewIdle
    /\ PollIdle
    /\ apiKey = TRUE
    /\ assistantIdByVectorStoreId = [v \in VectorStoreIds \cup {<<>>} |-> NoId]
    /\ dialogue \in {<<>>, EarlierExchange}
    /\ activeRun = 0
    /\ turnTask = [t \in Turns |-> IdleTurnTask]

SpecShare == ShareInit /\ [][ShareNext]_vars

\* C30: the reply a request answers with is the assistant message its own run
\* produced, which is newer in the thread than the user message the request
\* appended.
C30_ReplyFresh ==
    \A t \in Turns :
        (turnTask[t].pc = "done" /\ turnTask[t].status = 200) =>
            \E i \in (turnTask[t].userAt + 1)..Len(dialogue) :
                /\ dialogue[i] = AssistantMessage(t)
                /\ turnTask[t].reply = extractAssistantText(dialogue[i])

----------------------------------------------------------------------------
(* One grounded turn: the chat handler with its citation resolver *)

\* The annotations of the assistant message that carries citations.
CitedAnnotationLists ==
    { << Annotation("file_citation", Str(FileId("1")), Str(<<"q">>)) >>,
      << Annotation("file_citation", Str(FileId("1")), Str(<<"q">>)),
         Annotation("file_citation", Str(FileId("2")), Str(<<"q">>)) >> }

\* The memberships of the vector store of the request.
GroundedListings ==
    { <<>>,
      << [id |-> MembershipId("1"), file_id |-> FileId("1")] >>,
      << [id |-> MembershipId("1"), file_id |-> FileId("1")],
         [id |-> FileId("2"), file_id |-> <<>>] >> }

GroundedRunPlans ==
    { p \in RunPlans : /\ p.ends
                       /\ p.n <= MaxShortPlan
                       /\ p.pending = "in_progress"
                       /\ p.final \in {"completed", "failed"}
                       /\ p.lastError = "" }

\* server.ts 1089: extractAssistantCitationsForVectorStore is called with the
\* assistant message.
GrCiteBegin ==
    /\ pc = "citations"
    /\ citePc = "idle"
    /\ \E annotations \in CitedAnnotationLists : citeMessage' = ContentOf(annotations)
    /\ citePc' = "start"
    /\ UNCHANGED <<deduped, metaPending, metas, citations>>
    /\ UNCHANGED <<apiKey, assistantIdByVectorStoreId, chatVars, regVars, idxVars, metaVars,
                   mirVars, convVars, storeVars, shareVars, viewVars, pollVars>>

\* server.ts 1089-1091: the citations are returned and the response is sent.
GrCitationsResolved ==
    /\ citePc = "returned"
    /\ CitationsResolved

\* server.ts 1092-1097: the resolver threw.
GrCitationsFailed ==
    /\ citePc = "thrown"
    /\ CitationsFailed

GroundedNext ==
    \/ Receive /\ UNCHANGED nonChatVars
    \/ AssistantCreated /\ UNCHANGED nonChatVars
    \/ AssistantFailed /\ UNCHANGED nonChatVars
    \/ CallFailed /\ UNCHANGED nonChatVars
    \/ ThreadCreated /\ UNCHANGED nonChatVars
    \/ MessageAdded /\ UNCHANGED nonChatVars
    \/ RunCreated /\ UNCHANGED nonChatVars
    \/ StatusReceived /\ UNCHANGED nonChatVars
    \/ SleepDone /\ UNCHANGED nonChatVars
    \/ MessagesReceived /\ UNCHANGED nonChatVars
    \/ GrCiteBegin
    \/ CiteStart /\ UNCHANGED nonCiteVars
    \/ \E i \in 1..MaxAnnotations, ok \in BOOLEAN :
          CiteMetaAnswered(i, ok) /\ UNCHANGED nonCiteVars
    \/ CiteIdxPage /\ UNCHANGED nonCiteVars
    \/ CiteIdxPageFailed /\ UNCHANGED nonCiteVars
    \/ CiteMapped /\ UNCHANGED nonCiteVars
    \/ CiteThrown /\ UNCHANGED nonCiteVars
    \/ GrCitationsResolved /\ UNCHANGED nonChatVars
    \/ GrCitationsFailed /\ UNCHANGED nonChatVars

\* A turn arrives at a server with empty caches; the mirror is configured or
\* not, and holds objects or not.
GroundedInit ==
    /\ RegIdle
    /\ MetaIdle
    /\ CiteIdle
    /\ ConvIdle
    /\ StoreIdle
    /\ ShareIdle
    /\ ViewIdle
    /\ PollIdle
    /\ apiKey = TRUE
    /\ assistantIdByVectorStoreId = [v \in VectorStoreIds \cup {<<>>} |-> NoId]
    /\ body \in [prompt : {Str(<<"q", " ">>)}, vectorStoreId : {Str(CiteStore)},
                 threadId : RequestThreadIds]
    /\ pc = "request"
    /\ assistantId = NoId
    /\ threadId = NoId
    /\ runId = NoId
    /\ start = 0
    /\ now = 0
    /\ polls = 0
    /\ status = ""
    /\ messagesData = <<>>
    /\ reply = <<>>
    /\ res = NoRes
    /\ threads = EarlierThreads
    /\ runPlan \in GroundedRunPlans
    /\ calls = [e \in Endpoints |-> 0]
    /\ lastFail = NoFail
    /\ vectorStoreFileIdCache = [v \in VectorStoreIds |-> NoIndex]
    /\ \E items \in GroundedListings :
          listing = [v \in VectorStoreIds |-> IF v = CiteStore THEN items ELSE <<>>]
    /\ idxTask = IdleIdxTask
    /\ s3Env \in [bucket : {<<>>, <<"b">>}, region : {<<>>, <<"e">>}, prefix : {<<"p">>}]
    /\ s3Objects \in {{}, MirrorKeys}
    /\ mirReq = [id |-> <<>>, fileId |-> <<>>]
    /\ mirTask = IdleMirTask
    /\ mirRes = NoRes

SpecGrounded == GroundedInit /\ [][GroundedNext]_vars

\* The scenario: a prompt, the collection and no thread; the run answers
\* in_progress to the first status call and completed to the second; the
\* newest message is the assistant's, with one file citation; the collection
\* lists one membership, of the cited file; no call answers non-success.
HappyPlan ==
    [ends |-> TRUE, n |-> 1, pending |-> "in_progress", final |-> "completed", lastError |-> ""]

HappyMessages ==
    << Message("assistant", <<TextItem(<<"r">>, TRUE)>>),
       Message("user", <<TextItem(<<"q">>, FALSE)>>) >>

HappyAnnotations == << Annotation("file_citation", Str(FileId("1")), Str(<<"q">>)) >>

HappyScenario ==
    /\ body = [prompt |-> Str(<<"q", " ">>), vectorStoreId |-> Str(CiteStore),
               threadId |-> Undefined]
    /\ runPlan = HappyPlan
    /\ listing[CiteStore] = << [id |-> MembershipId("1"), file_id |-> FileId("1")] >>
    /\ lastFail = NoFail
    /\ messagesData = HappyMessages
    /\ citeMessage = ContentOf(HappyAnnotations)
    /\ \A i \in DOMAIN metas : metas[i] # NoFileMeta

\* C24: in the scenario the turn creates the first thread of the upstream,
\* issues two status calls, and answers success with the reply, the id of
\* that thread and exactly one citation: the cited file with its membership
\* id and its filename.
C24_HappyPath ==
    (HappyScenario /\ pc = "done") =>
        /\ res = [status |-> 200, body |-> <<"reply", "r">>, threadId |-> "th_1"]
        /\ threads["th_1"].exists
        /\ threads["th_1"].messages = << <<"q">> >>
        /\ calls["createThread"] = 1
        /\ polls = 2
        /\ calls["status"] = 2
        /\ citations = << [fileId |-> FileId("1"), filename |-> "policy.pdf", bytes |-> 10,
                           quote |-> Str(<<"q">>),
                           vectorStoreFileId |-> MembershipId("1")] >>

C24_Witness ==
    /\ HappyScenario
    /\ pc = "done"
    /\ res.status = 200
    /\ Len(citations) = 1
    /\ citations[1].vectorStoreFileId = MembershipId("1")
    /\ citations[1].filename = "policy.pdf"

\* The response of the turn as the request and the upstream's answers
\* determine it.
ExpectedResponse ==
    IF lastFail # NoFail
    THEN IF lastFail.at = "createAssistant"
         THEN Thrown("Failed to create assistant: ", lastFail)
         ELSE IF lastFail.at = "listFiles"
         THEN Thrown("Failed to list vector store files for mapping: ", lastFail)
         ELSE PassThrough(lastFail)
    ELSE IF status \in FailureTerminal
    THEN Respond(500, ErrorBody(RunFailedReason(runPlan.lastError, status)))
    ELSE IF status # "completed"
    THEN Respond(504, ErrorBody(<<"Timed out waiting for assistant response">>))
    ELSE IF extractAssistantText(FindAssistant(messagesData)) = <<>>
    THEN Respond(500, ErrorBody(<<"No assistant reply found">>))
    ELSE [status |-> 200,
          body |-> <<"reply">> \o extractAssistantText(FindAssistant(messagesData)),
          threadId |-> IF body.threadId = Undefined THEN "th_1" ELSE body.threadId.v]

\* The membership the upstream lists for a file of the collection.
ListedMembership(fileId) ==
    LET items == listing[CiteStore]
        Lists(i) == \/ items[i].file_id = fileId
                    \/ items[i].file_id = <<>> /\ items[i].id = fileId
    IN  IF \E i \in 1..Len(items) : Lists(i)
        THEN items[CHOOSE i \in 1..Len(items) : Lists(i)].id
        ELSE <<>>

\* The citations of the response: the distinct citations of the message,
\* each with the metadata the upstream answered and the listed membership.
ExpectedCitations ==
    IF ~HasAnnotations(FindAssistant(messagesData)) THEN <<>>
    ELSE LET ds == Dedupe(RawCitations(citeMessage))
         IN  [i \in 1..Len(ds) |->
                [fileId |-> ds[i].fileId, filename |-> metas[i].filename,
                 bytes |-> metas[i].bytes, quote |-> ds[i].quote,
                 vectorStoreFileId |-> ListedMembership(ds[i].fileId)]]

MirrorBroken == BucketName(s3Env) # <<>> /\ Trim(s3Env.region) = <<>>

\* C21: whether the mirror is configured, misconfigured or not configured,
\* and whatever the bucket holds, the response of a turn and its citations are
\* those that the request and the upstream's answers determine; the turn
\* leaves the mirror alone.
C21_MirrorSoft ==
    /\ pc = "done" =>
          /\ res = ExpectedResponse
          /\ res.status = 200 => citations = ExpectedCitations
    /\ mirTask = IdleMirTask
    /\ mirRes = NoRes

\* A turn answers with its reply and a resolved citation while the mirror is
\* misconfigured and holds nothing.
C21_Witness ==
    /\ pc = "done"
    /\ res.status = 200
    /\ MirrorBroken
    /\ s3Objects = {}
    /\ Len(citations) = 2
    /\ citations[1].vectorStoreFileId = MembershipId("1")

----------------------------------------------------------------------------
(* An upload request whose k-th file fails *)

\* The upload or the attach call of the file in turn answers non-success.
UploadCallFails ==
    /\ upTask.pc \in {"upload", "attach"}
    /\ upTask' # upTask
    /\ storeLog' = storeLog

\* The request ended with the failure of the upload or attach call of file k.
FailedAtFile(k) ==
    /\ upTask.pc = "done"
    /\ upTask.status \in { f.status : f \in UpstreamFailures }
    /\ upTask.i = k
    /\ \A a \in storeLog.attached : a.i # k

\* File j of the request is uploaded, attached and, when mirroring is
\* configured, mirrored.
FileKept(j) ==
    /\ \E u \in storeLog.uploaded :
          /\ u.fileId = FreshFileIds[j]
          /\ u.originalname = upTask.files[j].originalname
    /\ \E a \in storeLog.attached :
          /\ a.i = j
          /\ a.fileId = FreshFileIds[j]
          /\ \E n \in 1..Len(listing[upTask.v]) :
                listing[upTask.v][n] = [id |-> a.m, file_id |-> a.fileId]
          /\ upTask.config.kind = "config"
                => ObjectKey(upTask.config, upTask.v, a.m, upTask.files[j].originalname)
                       \in s3Objects

----------------------------------------------------------------------------
(* Delete requests for vector stores and memberships with similar ids *)

\* Ids of which one is a prefix of another, and ids that differ in a
\* character sanitizeS3KeyComponent replaces.
FrameStoreIds == {<<"a">>, <<"a", "b">>, <<"a", "/", "b">>, <<"a", "_", "b">>}
FrameMembershipIds ==
    {MembershipId("1"), MembershipId("1") \o <<"2">>, <<"v", "s", "f", "/", "1">>}

\* The objects the uploads to these stores have written: a file of each
\* membership of store "a", a file of one membership of each other store, and
\* two directory markers.
FrameKeys ==
    { ObjectKey(MirrorConfig, <<"a">>, m, <<"x">>) : m \in FrameMembershipIds }
        \cup { ObjectKey(MirrorConfig, v, MembershipId("1"), <<"x">>) : v \in FrameStoreIds }
        \cup { buildVectorStoreRootPrefix(MirrorConfig, <<"a">>),
               buildVectorStoreRootPrefix(MirrorConfig, <<"a", "_", "b">>) }

FrameNext ==
    \/ \E v \in FrameStoreIds : DelReceive("store", v, <<>>) /\ UNCHANGED nonStoreVars
    \/ \E v \in FrameStoreIds, m \in FrameMembershipIds :
          DelReceive("file", v, m) /\ UNCHANGED nonStoreVars
    \/ DelUpstreamFailed /\ UNCHANGED nonStoreVars
    \/ DelUpstreamDone /\ UNCHANGED nonStoreVars
    \/ DelListed /\ UNCHANGED nonStoreVars
    \/ DelDeleted /\ UNCHANGED nonStoreVars
    \/ DelS3Failed /\ UNCHANGED nonStoreVars

FrameInit ==
    /\ ChatIdle
    /\ RegIdle
    /\ MetaIdle
    /\ CiteIdle
    /\ ConvIdle
    /\ StoreIdle
    /\ ShareIdle
    /\ ViewIdle
    /\ PollIdle
    /\ apiKey = TRUE
    /\ assistantIdByVectorStoreId = [v \in VectorStoreIds \cup {<<>>} |-> NoId]
    /\ vectorStoreFileIdCache = [v \in VectorStoreIds |-> NoIndex]
    /\ listing = [v \in FrameStoreIds |-> <<>>]
    /\ idxTask = IdleIdxTask
    /\ s3Env \in [bucket : {<<>>, <<"b">>}, region : {<<"e">>}, prefix : {<<"p">>}]
    /\ s3Objects \in SUBSET FrameKeys
    /\ mirReq = [id |-> <<>>, fileId |-> <<>>]
    /\ mirTask = IdleMirTask
    /\ mirRes = NoRes

SpecFrame == FrameInit /\ [][FrameNext]_vars

\* The objects of a vector store and of one of its memberships.
ObjectsOfStore(objects, v) ==
    Under(objects, buildVectorStoreRootPrefix(getVectorStoreS3ConfigFromEnv(s3Env), v))

ObjectsOfMembership(objects, v, m) ==
    Under(objects, buildVectorStoreFilePrefix(getVectorStoreS3ConfigFromEnv(s3Env), v, m))

\* C36: no step of a mirror delete changes the objects of a vector store
\* other than the one named, and the delete of a membership changes the
\* objects of no other membership of its store, for every pair of distinct
\* ids.
C36_DeleteFrame ==
    [][InDeleteLoop
        => /\ \A v \in FrameStoreIds :
                v # delTask.v => ObjectsOfStore(s3Objects', v) = ObjectsOfStore(s3Objects, v)
           /\ delTask.kind = "file"
                => \A m \in FrameMembershipIds :
                      m # delTask.m
                        => ObjectsOfMembership(s3Objects', delTask.v, m)
                             = ObjectsOfMembership(s3Objects, delTask.v, m)]_vars

----------------------------------------------------------------------------
(* A membership enumeration that fails *)

\* C34: while an enumeration asks for pages and when a page request answers
\* non-success the cache is not written: the entry of the collection, if any,
\* keeps its map and creation time and no partial map is stored.  The call has
\* then thrown with an entry that is absent or expired, so the next resolve
\* for the collection does not answer from the cache; and every resolve that
\* does not answer from the cache starts at the first page with an empty map.
C34_FailedEnumeration ==
    /\ [][(idxTask.pc = "page" /\ idxTask'.pc \in {"page", "thrown"})
            => vectorStoreFileIdCache' = vectorStoreFileIdCache]_vars
    /\ [](idxTask.pc \in {"page", "thrown"}
            => ~Fresh(vectorStoreFileIdCache[idxTask.v], now))
    /\ [][(idxTask.pc = "idle" /\ idxTask'.pc # "idle"
             /\ ~Fresh(vectorStoreFileIdCache[idxTask'.v], now))
            => /\ idxTask'.pc = "page"
               /\ idxTask'.after = <<>>
               /\ idxTask'.byOpenAIFileId = EmptyMap
               /\ idxTask'.pages = 1]_vars

\* The second page request of a re-enumeration failed: one membership is in
\* the map built so far, and the expired entry is still the cached one.
C34_Witness ==
    /\ idxTask.pc = "thrown"
    /\ idxTask.pages = 2
    /\ idxTask.byOpenAIFileId # EmptyMap
    /\ vectorStoreFileIdCache[idxTask.v].present
    /\ vectorStoreFileIdCache[idxTask.v].byOpenAIFileId # idxTask.byOpenAIFileId
    /\ ~Fresh(vectorStoreFileIdCache[idxTask.v], now)

----------------------------------------------------------------------------
(* Concurrent lookups of one file *)

\* C33: over the life of the process at most one upstream metadata request is
\* issued per file id, whichever callers look the file up and however their
\* lookups interleave: the concurrent enrichments of two citations of one file
\* in one reply, or the resolutions of two requests.
C33_SingleMetaRequest == \A f \in RequestedFileIds : metaLog[f].requests <= 1

----------------------------------------------------------------------------
(* ChatComponent: the selector and the send button *)

ViewInit ==
    /\ ChatIdle
    /\ RegIdle
    /\ IdxIdle
    /\ MetaIdle
    /\ CiteIdle
    /\ MirIdle
    /\ ConvIdle
    /\ StoreIdle
    /\ ShareIdle
    /\ ViewIdle
    /\ PollIdle
    /\ apiKey = TRUE
    /\ assistantIdByVectorStoreId = [v \in VectorStoreIds \cup {<<>>} |-> NoId]

SpecView == ViewInit /\ [][ViewNext]_vars

\* C31: every grounded request sent with a thread id names a thread that a turn
\* against the vector store of the request - the one selected when it was sent -
\* returned, also when the selector changed while an earlier request was
\* outstanding.
C31_ThreadOfSelectedStore ==
    \A r \in outstanding :
        (r.vectorStoreId # NoVectorStore /\ r.threadId # NoClientThread)
            => <<r.threadId, r.vectorStoreId>> \in returnedFor

\* The request whose response or failure arrives in this step.
Answered(r) == r \in outstanding /\ r \notin outstanding'

\* The step is a call of sendMessage.
Clicked == clicks' = clicks + 1

\* C32: at most one request is outstanding; isLoading is true exactly while
\* one is; a call of sendMessage while isLoading sends nothing and changes
\* nothing shown; isLoading is false after every response and every failure;
\* a failure shows an error, leaves the list of messages as it was, and the
\* user message of the failed request is still in it unless the selector
\* emptied the list meanwhile.
C32_OneTurnInFlight ==
    /\ [](Cardinality(outstanding) <= 1)
    /\ [](isLoading <=> outstanding # {})
    /\ [][(Clicked /\ isLoading)
            => UNCHANGED <<outstanding, viewMessages, viewError, isLoading>>]_vars
    /\ [][\A r \in outstanding : Answered(r) => ~isLoading']_vars
    /\ [][\A r \in outstanding :
            (Answered(r) /\ viewError' # "")
                => /\ viewMessages' = viewMessages
                   /\ \A i \in 1..Len(viewMessages') : viewMessages'[i].role = "assistant"
                                                         => viewMessages'[i].of # r.id]_vars
    /\ [](outstanding = {} /\ viewError # "" /\ viewMessages # <<>>
            => viewMessages[Len(viewMessages)].role = "user")

\* The second request failed after the first was answered: the list holds the
\* first exchange and the second user message, and the component is idle.
C32_Witness ==
    /\ Len(viewMessages) = 3
    /\ viewMessages[3] = [role |-> "user", of |-> 3]
    /\ viewError # ""
    /\ ~isLoading
    /\ outstanding = {}
    /\ clicks = 3

----------------------------------------------------------------------------
(* VectorStoresComponent: the poll timer *)

PollInit ==
    /\ ChatIdle
    /\ RegIdle
    /\ IdxIdle
    /\ MetaIdle
    /\ CiteIdle
    /\ MirIdle
    /\ ConvIdle
    /\ StoreIdle
    /\ ShareIdle
    /\ ViewIdle
    /\ apiKey = TRUE
    /\ assistantIdByVectorStoreId = [v \in VectorStoreIds \cup {<<>>} |-> NoId]
    /\ selectedStore = NoStore
    /\ storeFiles = 0
    /\ pollIntervalId = 0
    /\ pollInFlight = FALSE
    /\ isPolling = FALSE
    /\ timers = {}
    /\ destroyed = FALSE
    /\ pollTask = {}
    /\ callbacks = {}
    /\ indexing \in [StoreIds -> [exists : {TRUE}, in_progress : 0..MaxInProgress]]
    /\ userOps = 0

SpecPoll == PollInit /\ [][PollNext]_vars

\* C37: at most one interval timer is registered, and it is the one
\* pollIntervalId names; at most one pollOnce is in flight, and pollInFlight
\* says so; a pollOnce starts only while none is in flight, so a tick during a
\* poll does nothing; isPolling is true exactly when a timer is registered.
C37_SinglePoller ==
    /\ [](Cardinality(timers) <= 1)
    /\ [](timers = (IF pollIntervalId = 0 THEN {} ELSE {pollIntervalId}))
    /\ [](Cardinality(pollTask) <= 1)
    /\ [](pollInFlight <=> pollTask # {})
    /\ [](isPolling <=> timers # {})
    /\ [][(\E t \in pollTask' : t \notin pollTask /\ t.pc = "files") => ~pollInFlight]_vars

\* The timer is registered and its poll is waiting for the list of stores.
C37_Witness ==
    /\ timers = {1}
    /\ isPolling
    /\ pollInFlight
    /\ \E t \in pollTask : t.pc = "stores"
    /\ ~destroyed

SpecPollLive == PollInit /\ [][PollNext]_vars /\ WF_vars(PollSystemNext)

\* C38: whenever a timer is registered a store is selected; once no store is
\* selected, or the selected store has no file in progress, the timer is
\* eventually cleared and isPolling is false.
C38_PollingStops ==
    /\ [](timers # {} => selectedStore.id # "")
    /\ (selectedStore.id = "" \/ ~hasInProgressWork(selectedStore, storeFiles))
          ~> (timers = {} /\ ~isPolling)

\* C39: after ngOnDestroy no interval timer is registered.
C39_NoTimerAfterDestroy == [](destroyed => timers = {})
====
